---- MODULE Spec2Model ----
(***************************************************************************)
(* School equipment booking backend (the Apps Script code exported as      *)
(* codeString in src/components/pages/BookingForm.tsx).                     *)
(*                                                                         *)
(* The Bookings sheet is a sequence of rows.  Every web request is an       *)
(* execution of its own; executions interleave at the calls that touch     *)
(* shared state (script properties, the script lock, the sheets).          *)
(*                                                                         *)
(* Time is counted in minutes since midnight of day 0 in the script time    *)
(* zone.  A Date is [t |-> minutes]; the text 'yyyy-MM-dd' is               *)
(* [ymd |-> day]; the text toISOString() gives for a Date, which is also    *)
(* the JSON of the Date, is [iso |-> minutes]; an array is [array |-> seq]  *)
(* and its JSON text [json |-> seq].  The empty text '' is [text |-> ""]    *)
(* where a date, a time or an array can stand, 0 in the id and period       *)
(* columns of the Bookings sheet, and "" elsewhere.                         *)
(***************************************************************************)
EXTENDS Integers, Sequences, FiniteSets, TLC

VARIABLES
    props,      \* script properties DB_INITIALIZED and SPREADSHEET_ID
    headers,    \* for each sheet of the spreadsheet, its number of header rows
    users,      \* data rows of the Users sheet
    rows,       \* data rows of the Bookings sheet
    master,     \* data rows of the Classrooms and of the Equipment sheet
    nextId,     \* source of fresh ids (Utilities.getUuid)
    lock,       \* execution holding the script lock, 0 when free
    now,        \* wall clock, minutes
    req         \* one record per concurrent execution

vars == <<props, headers, users, rows, master, nextId, lock, now, req>>

\* -------------------------------------------------------------------------
\* Bounds of the model
\* -------------------------------------------------------------------------

\* Number of booking rows ever appended.
MaxBookings == 2

\* Last day of the status model: its bookings and its clock cover days 0..MaxDay.
MaxDay == 1

\* Default users set up: of the 143 users initializeDefaultData holds, the
\* model populates the first MaxDefaultUsers.
MaxDefaultUsers == 2

\* Concurrent executions.
Reqs == {1, 2}

\* Inputs of the booking requests.
Classrooms == {"c1", "c2"}
Dates == {[ymd |-> 0]}
Periods == {1}
UserIds == {"u1"}
Plans == {"lp1"}
AdminNames == {"admin"}

MinutesPerDay == 24 * 60

\* Asia/Bangkok is seven hours ahead of UTC.
UtcOffset == 7 * 60

\* -------------------------------------------------------------------------
\* Configuration and pure helpers
\* -------------------------------------------------------------------------

DB_CONFIG ==
    [Users |-> <<"id", "name", "username", "password", "role">>,
     Bookings |-> <<"id", "userId", "type", "teacherName", "program", "classroom",
                    "period", "date", "equipment", "learningPlan", "status",
                    "createdAt", "returnedAt", "returnedBy">>,
     Classrooms |-> <<"id", "program", "name_th", "name_en">>,
     Equipment |-> <<"id", "name_th", "name_en">>]

SheetNames == DOMAIN DB_CONFIG

BookingHeaders == {DB_CONFIG.Bookings[i] : i \in DOMAIN DB_CONFIG.Bookings}

periodTimes ==
    [p \in 1..6 |->
        CASE p = 1 -> [start |-> <<8, 40>>, end |-> <<9, 40>>]
          [] p = 2 -> [start |-> <<9, 40>>, end |-> <<10, 40>>]
          [] p = 3 -> [start |-> <<10, 40>>, end |-> <<11, 40>>]
          [] p = 4 -> [start |-> <<12, 40>>, end |-> <<13, 40>>]
          [] p = 5 -> [start |-> <<13, 40>>, end |-> <<14, 40>>]
          [] p = 6 -> [start |-> <<14, 50>>, end |-> <<15, 50>>]]

\* The empty text where a date, a time or an array can stand.
emptyText == [text |-> ""]

\* v instanceof Date
isDate(v) == "t" \in DOMAIN v

\* v is a text of the form 'yyyy-MM-dd'.
isDateString(v) == "ymd" \in DOMAIN v

\* d.toISOString(), and JSON.stringify of a Date.
toISOString(d) == [iso |-> d.t]

\* JSON.stringify and JSON.parse of a value that stands where a date can: a
\* Date arrives as its ISO text, a text as itself.
toJSON(v) == IF isDate(v) THEN toISOString(v) ELSE v

\* new Date(v): a 'yyyy-MM-dd' text is midnight UTC of that day, an ISO text
\* the instant it names, the empty text an invalid Date.
isValidDate(v) == v # emptyText

newDate(v) ==
    IF isDateString(v) THEN [t |-> v.ymd * MinutesPerDay + UtcOffset]
    ELSE IF isDate(v) THEN v
    ELSE [t |-> v.iso]

\* Utilities.formatDate(d, TIMEZONE, 'yyyy-MM-dd'): the day a Date falls on.
formatDate(d) == [ymd |-> d.t \div MinutesPerDay]

\* new Date(d.getFullYear(), d.getMonth(), d.getDate(), h, min).
dateAt(d, hm) == (d.t \div MinutesPerDay) * MinutesPerDay + hm[1] * 60 + hm[2]

\* A 'yyyy-MM-dd' string written to a cell is kept by the sheet as the Date of
\* that day's midnight.
cellDate(s) == [t |-> s.ymd * MinutesPerDay]

\* An injective stand-in for the base64 text of the SHA-256 digest.
hashPassword(p) == "sha256:" \o p

\* Statuses calculateBookingStatus and addBooking treat as final.
FinalStatuses == {"Returned", "Not Used", "Cancelled"}

\* bookingStatus without its Pending Return branch.
bookingStatus_noPendingReturn(b, t) ==
    IF b.status \in FinalStatuses THEN b
    ELSE IF ~isDate(b.date) THEN b
    ELSE IF b.period \notin DOMAIN periodTimes THEN b
    ELSE LET periodInfo == periodTimes[b.period]
             startTime == dateAt(b.date, periodInfo.start)
             endTime == dateAt(b.date, periodInfo.end)
         IN  IF t >= startTime /\ t <= endTime THEN [b EXCEPT !.status = "In Use"]
             ELSE [b EXCEPT !.status = "Booked"]

\* One booking as calculateBookingStatus maps it at time t.
bookingStatus(b, t) ==
    IF b.status \in FinalStatuses THEN b
    ELSE IF ~isDate(b.date) THEN b
    ELSE IF b.period \notin DOMAIN periodTimes THEN b
    ELSE LET periodInfo == periodTimes[b.period]
             startTime == dateAt(b.date, periodInfo.start)
             endTime == dateAt(b.date, periodInfo.end)
         IN  IF t >= startTime /\ t <= endTime THEN [b EXCEPT !.status = "In Use"]
             ELSE IF t > endTime THEN [b EXCEPT !.status = "Pending Return"]
             ELSE [b EXCEPT !.status = "Booked"]

calculateBookingStatus(bookings, t) ==
    [i \in DOMAIN bookings |-> bookingStatus(bookings[i], t)]

\* The conflict search of addBooking over the rows read from the sheet.
conflict(allBookings, data) ==
    \E i \in DOMAIN allBookings :
        LET b == allBookings[i]
        IN  /\ isDate(b.date)
            /\ formatDate(b.date) = data.date
            /\ b.classroom = data.classroom
            /\ b.period = data.period
            /\ b.status \notin FinalStatuses

\* dataObjects.findIndex(row => row.id === id), 1-based; 0 when absent.
findIndex(dataObjects, id) ==
    IF \E i \in DOMAIN dataObjects : dataObjects[i].id = id
    THEN CHOOSE i \in DOMAIN dataObjects :
            /\ dataObjects[i].id = id
            /\ \A j \in DOMAIN dataObjects : dataObjects[j].id = id => i <= j
    ELSE 0

\* The empty text '' in a column of the Bookings sheet.
emptyCell(h) ==
    IF h \in {"id", "period"} THEN 0
    ELSE IF h \in {"date", "equipment", "createdAt", "returnedAt"} THEN emptyText
    ELSE ""

\* prepareRow, and what the sheet keeps of the values written: the header
\* columns of a record, a missing value as '', an array as its JSON text, a
\* 'yyyy-MM-dd' string as the Date of that day, any other text as it is.
prepareRow(record) ==
    [h \in BookingHeaders |->
        IF h \notin DOMAIN record THEN emptyCell(h)
        ELSE IF h = "equipment" /\ "array" \in DOMAIN record[h]
        THEN [json |-> record[h].array]
        ELSE IF h \in {"date", "createdAt", "returnedAt"} /\ isDateString(record[h])
        THEN cellDate(record[h])
        ELSE record[h]]

\* sheetDataToObject: the data rows as objects, an equipment cell that is not
\* empty parsed.
sheetDataToObject(sheetRows) ==
    [i \in DOMAIN sheetRows |->
        [h \in DOMAIN sheetRows[i] |->
            IF h = "equipment" /\ "json" \in DOMAIN sheetRows[i][h]
            THEN [array |-> sheetRows[i][h].json]
            ELSE sheetRows[i][h]]]

\* { ...old, ...data }
merge(old, data) ==
    [f \in DOMAIN old \cup DOMAIN data |-> IF f \in DOMAIN data THEN data[f] ELSE old[f]]

\* A row of the Bookings sheet without content.
blankRow == [h \in BookingHeaders |-> emptyCell(h)]

RECURSIVE trimRows(_, _)
\* The data range ends at the last row with content: rows without content at
\* the end of the sheet are no data.
trimRows(s, blank) ==
    IF s # <<>> /\ s[Len(s)] = blank THEN trimRows(SubSeq(s, 1, Len(s) - 1), blank)
    ELSE s

\* range.setValues([row]) for data row i: a row past the last one extends the
\* data range, the rows in between being without content.
setValues(s, i, row, blank) ==
    [j \in 1..(IF i > Len(s) THEN i ELSE Len(s)) |->
        IF j = i THEN row ELSE IF j <= Len(s) THEN s[j] ELSE blank]

\* range.getValues() for the data rows of a range of n data rows: the cells as
\* they are at the call, a row behind the last one with content read as empty
\* cells.
getValues(s, n, blank) == [j \in 1..n |-> IF j <= Len(s) THEN s[j] ELSE blank]

\* sheet.deleteRow for data row i; a row past the data holds nothing.
deleteRow(s, i) ==
    IF i > Len(s) THEN s
    ELSE [j \in 1..(Len(s) - 1) |-> IF j < i THEN s[j] ELSE s[j + 1]]


\* -------------------------------------------------------------------------
\* Requests
\* -------------------------------------------------------------------------

\* The payload BookingForm.handleSubmit sends for a new or an edited booking.
Payloads ==
    [userId : UserIds, type : {"Booking"}, teacherName : {"t1"},
     program : {"Thai Programme"}, classroom : Classrooms, period : Periods,
     date : Dates, equipment : {[array |-> <<"e1">>]}, learningPlan : Plans]

\* if (id): the id is neither null, undefined nor the empty text.
truthy(id) == id > 0

\* Utilities.getUuid never repeats: an id a request names is one handed out
\* so far or one a stored row holds (an update can store the id of its
\* payload), which a client learns from the reads, or one that no booking ever
\* has.
unknownId == MaxBookings + 1

BookingIds ==
    1..(nextId - 1) \cup {rows[i].id : i \in {j \in DOMAIN rows : truthy(rows[j].id)}}
        \cup {unknownId}

ReadOps == {"getBookingsByDate", "getBookingsWithStatus", "getReportData"}

Idle ==
    [pc |-> "idle", op |-> "none", arg |-> <<>>, ret |-> "none", populate |-> FALSE,
     result |-> "none", newId |-> 0, data |-> <<>>, overlap |-> {},
     rowIndex |-> 0, updatedData |-> <<>>, read |-> "none", range |-> 0]

\* The handlers that call addOrUpdateRecord('Bookings', ...).
BookingWrites == {"addBooking", "updateBooking", "confirmReturn", "cancelBooking"}

\* null or undefined where the id of a booking can stand.
noId == 0 - 1

\* The id a handler passes to addOrUpdateRecord or deleteRecord for the
\* Bookings sheet; a parameter the request lacks is undefined.
updateId(q) ==
    IF q.op = "addBooking" THEN noId
    ELSE IF q.op \in {"updateBooking", "deleteBooking"}
    THEN IF "id" \in DOMAIN q.arg THEN q.arg.id ELSE noId
    ELSE IF "bookingId" \in DOMAIN q.arg THEN q.arg.bookingId ELSE noId

\* The data a handler passes to addOrUpdateRecord('Bookings', data, id).
updateData(q) ==
    IF q.op = "addBooking" THEN q.arg
    ELSE IF q.op = "cancelBooking" THEN [status |-> "Not Used"]
    ELSE q.arg.data

InFlight(r) == req[r].pc \notin {"idle", "done"}

\* The instants at which some booking of the inputs changes its derived status.
TickTimes ==
    {dateAt(cellDate(d), periodTimes[p].start) : d \in Dates, p \in Periods}
        \cup {dateAt(cellDate(d), periodTimes[p].end) + 1 : d \in Dates, p \in Periods}

\* The list initialUsers of initializeDefaultData, a name shortened to n<id>.
initialUsers ==
    <<
      [id |-> "1", name |-> "n1", username |-> "admin", password |-> "admin1234", role |-> "admin"],
      [id |-> "2", name |-> "n2", username |-> "A0941799831", password |-> "A0941799831", role |-> "teacher"],
      [id |-> "3", name |-> "n3", username |-> "A0994897060", password |-> "A0994897060", role |-> "teacher"],
      [id |-> "4", name |-> "n4", username |-> "A0965477097", password |-> "A0965477097", role |-> "teacher"],
      [id |-> "5", name |-> "n5", username |-> "A0643805904", password |-> "A0643805904", role |-> "teacher"],
      [id |-> "6", name |-> "n6", username |-> "A0949138028", password |-> "A0949138028", role |-> "teacher"],
      [id |-> "7", name |-> "n7", username |-> "A0636698561", password |-> "A0636698561", role |-> "teacher"],
      [id |-> "8", name |-> "n8", username |-> "A0659398155", password |-> "A0659398155", role |-> "teacher"],
      [id |-> "9", name |-> "n9", username |-> "A0826061421", password |-> "A0826061421", role |-> "teacher"],
      [id |-> "10", name |-> "n10", username |-> "A0839948836", password |-> "A0839948836", role |-> "teacher"],
      [id |-> "11", name |-> "n11", username |-> "A0653497243", password |-> "A0653497243", role |-> "teacher"],
      [id |-> "12", name |-> "n12", username |-> "A0876001180", password |-> "A0876001180", role |-> "teacher"],
      [id |-> "13", name |-> "n13", username |-> "A0996481679", password |-> "A0996481679", role |-> "teacher"],
      [id |-> "14", name |-> "n14", username |-> "A0841356630", password |-> "A0841356630", role |-> "teacher"],
      [id |-> "15", name |-> "n15", username |-> "A0826676248", password |-> "A0826676248", role |-> "teacher"],
      [id |-> "16", name |-> "n16", username |-> "A0918904792", password |-> "A0918904792", role |-> "teacher"],
      [id |-> "17", name |-> "n17", username |-> "A0811485912", password |-> "A0811485912", role |-> "teacher"],
      [id |-> "18", name |-> "n18", username |-> "A0656465798", password |-> "A0656465798", role |-> "teacher"],
      [id |-> "19", name |-> "n19", username |-> "A0834268748", password |-> "A0834268748", role |-> "teacher"],
      [id |-> "20", name |-> "n20", username |-> "A0644386047", password |-> "A0644386047", role |-> "teacher"],
      [id |-> "21", name |-> "n21", username |-> "A0946186182", password |-> "A0946186182", role |-> "teacher"],
      [id |-> "22", name |-> "n22", username |-> "A0801283641", password |-> "A0801283641", role |-> "teacher"],
      [id |-> "23", name |-> "n23", username |-> "A0657081336", password |-> "A0657081336", role |-> "teacher"],
      [id |-> "24", name |-> "n24", username |-> "A0916981703", password |-> "A0916981703", role |-> "teacher"],
      [id |-> "25", name |-> "n25", username |-> "A0986428993", password |-> "A0986428993", role |-> "teacher"],
      [id |-> "26", name |-> "n26", username |-> "A0818751373", password |-> "A0818751373", role |-> "teacher"],
      [id |-> "27", name |-> "n27", username |-> "A0875865529", password |-> "A0875865529", role |-> "teacher"],
      [id |-> "28", name |-> "n28", username |-> "A0844484839", password |-> "A0844484839", role |-> "teacher"],
      [id |-> "29", name |-> "n29", username |-> "A0817272165", password |-> "A0817272165", role |-> "teacher"],
      [id |-> "30", name |-> "n30", username |-> "A0986567059", password |-> "A0986567059", role |-> "teacher"],
      [id |-> "31", name |-> "n31", username |-> "A0639868522", password |-> "A0639868522", role |-> "teacher"],
      [id |-> "32", name |-> "n32", username |-> "A0878381856", password |-> "A0878381856", role |-> "teacher"],
      [id |-> "33", name |-> "n33", username |-> "A0948024527", password |-> "A0948024527", role |-> "teacher"],
      [id |-> "34", name |-> "n34", username |-> "A0822370241", password |-> "A0822370241", role |-> "teacher"],
      [id |-> "35", name |-> "n35", username |-> "A0997135792", password |-> "A0997135792", role |-> "teacher"],
      [id |-> "36", name |-> "n36", username |-> "A0946911328", password |-> "A0946911328", role |-> "teacher"],
      [id |-> "37", name |-> "n37", username |-> "A0948683809", password |-> "A0948683809", role |-> "teacher"],
      [id |-> "38", name |-> "n38", username |-> "A0816621045", password |-> "A0816621045", role |-> "teacher"],
      [id |-> "39", name |-> "n39", username |-> "A0968366383", password |-> "A0968366383", role |-> "teacher"],
      [id |-> "40", name |-> "n40", username |-> "A0902960425", password |-> "A0902960425", role |-> "teacher"],
      [id |-> "41", name |-> "n41", username |-> "A0615052434", password |-> "A0615052434", role |-> "teacher"],
      [id |-> "42", name |-> "n42", username |-> "A0642602986", password |-> "A0642602986", role |-> "teacher"],
      [id |-> "43", name |-> "n43", username |-> "A0951130440", password |-> "A0951130440", role |-> "teacher"],
      [id |-> "44", name |-> "n44", username |-> "A0970410790", password |-> "A0970410790", role |-> "teacher"],
      [id |-> "45", name |-> "n45", username |-> "A0929610115", password |-> "A0929610115", role |-> "teacher"],
      [id |-> "46", name |-> "n46", username |-> "A0825240918", password |-> "A0825240918", role |-> "teacher"],
      [id |-> "47", name |-> "n47", username |-> "A0853730447", password |-> "A0853730447", role |-> "teacher"],
      [id |-> "48", name |-> "n48", username |-> "A0851997405", password |-> "A0851997405", role |-> "teacher"],
      [id |-> "49", name |-> "n49", username |-> "A0946412800", password |-> "A0946412800", role |-> "teacher"],
      [id |-> "50", name |-> "n50", username |-> "A0983243861", password |-> "A0983243861", role |-> "teacher"],
      [id |-> "51", name |-> "n51", username |-> "A0820051362", password |-> "A0820051362", role |-> "teacher"],
      [id |-> "52", name |-> "n52", username |-> "A0621408009", password |-> "A0621408009", role |-> "teacher"],
      [id |-> "53", name |-> "n53", username |-> "A0801087095", password |-> "A0801087095", role |-> "teacher"],
      [id |-> "54", name |-> "n54", username |-> "A0988641351", password |-> "A0988641351", role |-> "teacher"],
      [id |-> "55", name |-> "n55", username |-> "A0802649877", password |-> "A0802649877", role |-> "teacher"],
      [id |-> "56", name |-> "n56", username |-> "A0982859413", password |-> "A0982859413", role |-> "teacher"],
      [id |-> "57", name |-> "n57", username |-> "A0953905236", password |-> "A0953905236", role |-> "teacher"],
      [id |-> "58", name |-> "n58", username |-> "A0827566780", password |-> "A0827566780", role |-> "teacher"],
      [id |-> "59", name |-> "n59", username |-> "A0936971610", password |-> "A0936971610", role |-> "teacher"],
      [id |-> "60", name |-> "n60", username |-> "A0906208621", password |-> "A0906208621", role |-> "teacher"],
      [id |-> "61", name |-> "n61", username |-> "A0971543391", password |-> "A0971543391", role |-> "teacher"],
      [id |-> "62", name |-> "n62", username |-> "A0985055869", password |-> "A0985055869", role |-> "teacher"],
      [id |-> "63", name |-> "n63", username |-> "A0802957374", password |-> "A0802957374", role |-> "teacher"],
      [id |-> "64", name |-> "n64", username |-> "A0946070851", password |-> "A0946070851", role |-> "teacher"],
      [id |-> "65", name |-> "n65", username |-> "A0827062604", password |-> "A0827062604", role |-> "teacher"],
      [id |-> "66", name |-> "n66", username |-> "A0649597108", password |-> "A0649597108", role |-> "teacher"],
      [id |-> "67", name |-> "n67", username |-> "A0654153586", password |-> "A0654153586", role |-> "teacher"],
      [id |-> "68", name |-> "n68", username |-> "A0924747229", password |-> "A0924747229", role |-> "teacher"],
      [id |-> "69", name |-> "n69", username |-> "A0913764752", password |-> "A0913764752", role |-> "teacher"],
      [id |-> "70", name |-> "n70", username |-> "A0959479561", password |-> "A0959479561", role |-> "teacher"],
      [id |-> "71", name |-> "n71", username |-> "A0985099986", password |-> "A0985099986", role |-> "teacher"],
      [id |-> "72", name |-> "n72", username |-> "A0917329316", password |-> "A0917329316", role |-> "teacher"],
      [id |-> "73", name |-> "n73", username |-> "A0823754486", password |-> "A0823754486", role |-> "teacher"],
      [id |-> "74", name |-> "n74", username |-> "A0931183213", password |-> "A0931183213", role |-> "teacher"],
      [id |-> "75", name |-> "n75", username |-> "A0619943628", password |-> "A0619943628", role |-> "teacher"],
      [id |-> "76", name |-> "n76", username |-> "A0807444591", password |-> "A0807444591", role |-> "teacher"],
      [id |-> "77", name |-> "n77", username |-> "A0857469287", password |-> "A0857469287", role |-> "teacher"],
      [id |-> "78", name |-> "n78", username |-> "A0876962717", password |-> "A0876962717", role |-> "teacher"],
      [id |-> "79", name |-> "n79", username |-> "A0802139967", password |-> "A0802139967", role |-> "teacher"],
      [id |-> "80", name |-> "n80", username |-> "A0803282358", password |-> "A0803282358", role |-> "teacher"],
      [id |-> "81", name |-> "n81", username |-> "A0812564785", password |-> "A0812564785", role |-> "teacher"],
      [id |-> "82", name |-> "n82", username |-> "A0996167632", password |-> "A0996167632", role |-> "teacher"],
      [id |-> "83", name |-> "n83", username |-> "A0974955361", password |-> "A0974955361", role |-> "teacher"],
      [id |-> "84", name |-> "n84", username |-> "A0820277548", password |-> "A0820277548", role |-> "teacher"],
      [id |-> "85", name |-> "n85", username |-> "A0811971310", password |-> "A0811971310", role |-> "teacher"],
      [id |-> "86", name |-> "n86", username |-> "A0967071073", password |-> "A0967071073", role |-> "teacher"],
      [id |-> "87", name |-> "n87", username |-> "A0956624361", password |-> "A0956624361", role |-> "teacher"],
      [id |-> "88", name |-> "n88", username |-> "A0901308678", password |-> "A0901308678", role |-> "teacher"],
      [id |-> "89", name |-> "n89", username |-> "A0969477299", password |-> "A0969477299", role |-> "teacher"],
      [id |-> "90", name |-> "n90", username |-> "A0653133861", password |-> "A0653133861", role |-> "teacher"],
      [id |-> "91", name |-> "n91", username |-> "A0980271586", password |-> "A0980271586", role |-> "teacher"],
      [id |-> "92", name |-> "n92", username |-> "A0982466705", password |-> "A0982466705", role |-> "teacher"],
      [id |-> "93", name |-> "n93", username |-> "A06486399122", password |-> "A06486399122", role |-> "teacher"],
      [id |-> "94", name |-> "n94", username |-> "A0831113023", password |-> "A0831113023", role |-> "teacher"],
      [id |-> "95", name |-> "n95", username |-> "A0883045231", password |-> "A0883045231", role |-> "admin"],
      [id |-> "96", name |-> "n96", username |-> "A0903212310", password |-> "A0903212310", role |-> "teacher"],
      [id |-> "97", name |-> "n97", username |-> "A0892299905", password |-> "A0892299905", role |-> "teacher"],
      [id |-> "98", name |-> "n98", username |-> "A0830613757", password |-> "A0830613757", role |-> "teacher"],
      [id |-> "99", name |-> "n99", username |-> "A0875380556", password |-> "A0875380556", role |-> "teacher"],
      [id |-> "100", name |-> "n100", username |-> "A0614646395", password |-> "A0614646395", role |-> "teacher"],
      [id |-> "101", name |-> "n101", username |-> "A0902594288", password |-> "A0902594288", role |-> "teacher"],
      [id |-> "102", name |-> "n102", username |-> "A0998146358", password |-> "A0998146358", role |-> "teacher"],
      [id |-> "103", name |-> "n103", username |-> "A0970601930", password |-> "A0970601930", role |-> "teacher"],
      [id |-> "104", name |-> "n104", username |-> "A0949647964", password |-> "A0949647964", role |-> "teacher"],
      [id |-> "105", name |-> "n105", username |-> "A0651562457", password |-> "A0651562457", role |-> "teacher"],
      [id |-> "106", name |-> "n106", username |-> "A0912455949", password |-> "A0912455949", role |-> "teacher"],
      [id |-> "107", name |-> "n107", username |-> "A0833759527", password |-> "A0833759527", role |-> "teacher"],
      [id |-> "108", name |-> "n108", username |-> "A0819891463", password |-> "A0819891463", role |-> "teacher"],
      [id |-> "109", name |-> "n109", username |-> "A0868372374", password |-> "A0868372374", role |-> "teacher"],
      [id |-> "110", name |-> "n110", username |-> "A0857402739", password |-> "A0857402739", role |-> "teacher"],
      [id |-> "111", name |-> "n111", username |-> "A0969780682", password |-> "A0969780682", role |-> "teacher"],
      [id |-> "112", name |-> "n112", username |-> "A0818648757", password |-> "A0818648757", role |-> "teacher"],
      [id |-> "113", name |-> "n113", username |-> "A0930728037", password |-> "A0930728037", role |-> "teacher"],
      [id |-> "114", name |-> "n114", username |-> "A0651561755", password |-> "A0651561755", role |-> "teacher"],
      [id |-> "115", name |-> "n115", username |-> "A0817620531", password |-> "A0817620531", role |-> "teacher"],
      [id |-> "116", name |-> "n116", username |-> "A0909289254", password |-> "A0909289254", role |-> "teacher"],
      [id |-> "117", name |-> "n117", username |-> "A0924606190", password |-> "A0924606190", role |-> "teacher"],
      [id |-> "118", name |-> "n118", username |-> "A06526309655", password |-> "A06526309655", role |-> "teacher"],
      [id |-> "119", name |-> "n119", username |-> "A0958607873", password |-> "A0958607873", role |-> "teacher"],
      [id |-> "120", name |-> "n120", username |-> "A0614704421", password |-> "A0614704421", role |-> "teacher"],
      [id |-> "121", name |-> "n121", username |-> "A0639500476", password |-> "A0639500476", role |-> "teacher"],
      [id |-> "122", name |-> "n122", username |-> "A0961588673", password |-> "A0961588673", role |-> "teacher"],
      [id |-> "123", name |-> "n123", username |-> "A0988758526", password |-> "A0988758526", role |-> "teacher"],
      [id |-> "124", name |-> "n124", username |-> "A0818343465", password |-> "A0818343465", role |-> "admin"],
      [id |-> "125", name |-> "n125", username |-> "A08802105933", password |-> "A08802105933", role |-> "teacher"],
      [id |-> "126", name |-> "n126", username |-> "A0865153455", password |-> "A0865153455", role |-> "teacher"],
      [id |-> "127", name |-> "n127", username |-> "A0625122420", password |-> "A0625122420", role |-> "teacher"],
      [id |-> "128", name |-> "n128", username |-> "A0925533830", password |-> "A0925533830", role |-> "teacher"],
      [id |-> "129", name |-> "n129", username |-> "A0610451017", password |-> "A0610451017", role |-> "teacher"],
      [id |-> "130", name |-> "n130", username |-> "A0988404282", password |-> "A0988404282", role |-> "teacher"],
      [id |-> "131", name |-> "n131", username |-> "A0819966244", password |-> "A0819966244", role |-> "teacher"],
      [id |-> "132", name |-> "n132", username |-> "A0894999464", password |-> "A0894999464", role |-> "teacher"],
      [id |-> "133", name |-> "n133", username |-> "A0929323900", password |-> "A0929323900", role |-> "teacher"],
      [id |-> "134", name |-> "n134", username |-> "A0660768326", password |-> "A0660768326", role |-> "teacher"],
      [id |-> "135", name |-> "n135", username |-> "A0822527232", password |-> "A0822527232", role |-> "teacher"],
      [id |-> "136", name |-> "n136", username |-> "A0958481727", password |-> "A0958481727", role |-> "teacher"],
      [id |-> "137", name |-> "n137", username |-> "A0984436701", password |-> "A0984436701", role |-> "teacher"],
      [id |-> "138", name |-> "n138", username |-> "A0890916292", password |-> "A0890916292", role |-> "teacher"],
      [id |-> "139", name |-> "n139", username |-> "A0968154693", password |-> "A0968154693", role |-> "teacher"],
      [id |-> "140", name |-> "n140", username |-> "A0915519538", password |-> "A0915519538", role |-> "teacher"],
      [id |-> "141", name |-> "n141", username |-> "A0860542239", password |-> "A0860542239", role |-> "teacher"],
      [id |-> "142", name |-> "n142", username |-> "A0861508025", password |-> "A0861508025", role |-> "teacher"],
      [id |-> "143", name |-> "n143", username |-> "A0868284206", password |-> "A0868284206", role |-> "teacher"]>>

\* The default users the model populates the Users sheet with: the first
\* MaxDefaultUsers of the list.
defaultUsers == SubSeq(initialUsers, 1, MaxDefaultUsers)

Init ==
    /\ props = [DB_INITIALIZED |-> FALSE, SPREADSHEET_ID |-> FALSE]
    /\ headers = [s \in SheetNames |-> 0]
    /\ users = <<>>
    /\ rows = <<>>
    /\ master = [s \in {"Classrooms", "Equipment"} |-> <<>>]
    /\ nextId = 1
    /\ lock = 0
    /\ now = 0
    /\ req = [r \in Reqs |-> Idle]

\* The fast path test of ensureDatabaseInitialized.
dbReady == props.DB_INITIALIZED /\ props.SPREADSHEET_ID

\* doPost/doGet -> handleRequest -> actionMap[action](params): a request
\* arrives and its handler starts.  `first` is the handler's first step.
Begin(r, op, arg, first) ==
    /\ req[r].pc = "idle"
    /\ req' = [req EXCEPT ![r] =
                [Idle EXCEPT !.pc = first, !.op = op, !.arg = arg,
                             !.overlap = {q \in Reqs \ {r} : InFlight(q)}]]
    /\ UNCHANGED <<props, headers, master, users, rows, nextId, lock, now>>

StartAddBooking(r) == \E data \in Payloads : Begin(r, "addBooking", data, "main")

\* The payload of an edited booking whose date was left as the form got it:
\* the JSON of the date the booking was read with.
EditPayloads == {[data EXCEPT !.date = toJSON(cellDate(@))] : data \in Payloads}

StartUpdateBooking(r) ==
    \E id \in BookingIds, data \in Payloads \cup EditPayloads :
        Begin(r, "updateBooking", [id |-> id, data |-> data], "w_lock")

StartDeleteBooking(r) ==
    \E id \in BookingIds : Begin(r, "deleteBooking", [id |-> id], "w_lock")

\* confirmReturn builds its update, new Date() included, before it calls
\* addOrUpdateRecord.
StartConfirmReturn(r) ==
    \E id \in BookingIds, a \in AdminNames :
        Begin(r, "confirmReturn",
              [bookingId |-> id,
               data |-> [status |-> "Returned", returnedAt |-> toISOString([t |-> now]), returnedBy |-> a]],
              "w_lock")

StartCancelBooking(r) ==
    \E id \in BookingIds, u \in UserIds :
        Begin(r, "cancelBooking", [bookingId |-> id, userId |-> u], "main")

\* The dates StatusView asks for.
ReadDates == {[ymd |-> d] : d \in 0..MaxDay}

\* What the date cell of a booking of those days holds once the booking was
\* edited with the date left as the form got it.
EditedDates == {toJSON(cellDate(d)) : d \in ReadDates}

StartGetBookingsByDate(r) ==
    \E d \in ReadDates : Begin(r, "getBookingsByDate", [date |-> d], "main")

StartGetBookingsWithStatus(r) == Begin(r, "getBookingsWithStatus", <<>>, "main")

\* The filters ReportGenerator sends: none set, one set, or all of them; a
\* filter left open is the empty text.
NoFilter ==
    [startDate |-> emptyText, endDate |-> emptyText, program |-> "", teacherId |-> "",
     equipmentId |-> ""]

Filters ==
    {NoFilter}
        \cup {[NoFilter EXCEPT !.startDate = d] : d \in Dates}
        \cup {[NoFilter EXCEPT !.endDate = d] : d \in Dates}
        \cup {[NoFilter EXCEPT !.program = "Thai Programme"]}
        \cup {[NoFilter EXCEPT !.teacherId = u] : u \in UserIds}
        \cup {[NoFilter EXCEPT !.equipmentId = e] : e \in {"e1", "e2"}}
        \cup {[startDate |-> d, endDate |-> d, program |-> "Thai Programme",
                teacherId |-> u, equipmentId |-> "e1"] : d \in Dates, u \in UserIds}

StartGetReportData(r) == \E f \in Filters : Begin(r, "getReportData", f, "main")

\* -------------------------------------------------------------------------
\* getDB and ensureDatabaseInitialized
\* -------------------------------------------------------------------------

\* getDB() on a database that is not set up: ensureDatabaseInitialized fails
\* its fast path test and goes on to wait for the lock.  The step the handler
\* was at is where it resumes.
GetDBSlowPath(r) ==
    /\ req[r].pc \in {"main", "w_body"}
    /\ ~dbReady
    /\ req' = [req EXCEPT ![r].ret = req[r].pc, ![r].pc = "e_wait"]
    /\ UNCHANGED <<props, headers, master, users, rows, nextId, lock, now>>

\* What an execution that waits for the script lock is left with when
\* waitLock times out: the exception of the lock service.  Both calls of
\* waitLock stand before their try, so that no finally of their own function
\* runs; a getDB() called inside the try of addOrUpdateRecord or deleteRecord
\* passes their finally, every other call ends in the catch of handleRequest.
lockTimeout(q) ==
    [q EXCEPT !.pc = IF q.pc = "e_wait" /\ q.ret = "w_body" THEN "w_release" ELSE "done",
              !.result = "Error: Lock timeout: another process was holding the lock for too long.",
              !.read = "none", !.range = 0]

\* SCRIPT_LOCK.waitLock(30000).  The script lock belongs to the execution:
\* the execution that holds it passes at once.  While another execution
\* holds the lock the call waits, and it can time out.
EnsureWaitLock(r) ==
    /\ req[r].pc = "e_wait"
    /\ IF lock \in {0, r}
       THEN /\ lock' = r
            /\ req' = [req EXCEPT ![r].pc = "e_critical"]
       ELSE /\ lock' = lock
            /\ req' = [req EXCEPT ![r] = lockTimeout(@)]
    /\ UNCHANGED <<props, headers, master, users, rows, nextId, now>>

\* EnsureCritical without the double check under the lock.
EnsureCritical_noDoubleCheck(r) ==
    /\ req[r].pc = "e_critical"
    /\ headers' = [s \in SheetNames |-> IF headers[s] = 0 THEN 1 ELSE headers[s]]
    /\ props' = [DB_INITIALIZED |-> TRUE, SPREADSHEET_ID |-> TRUE]
    /\ req' = [req EXCEPT ![r].pc = "e_release", ![r].populate = TRUE]
    /\ UNCHANGED <<users, rows, master, nextId, lock, now>>

\* The double check and, when it fails, the critical section: the spreadsheet
\* is found or created, every sheet without a row gets its header row, both
\* properties are set.
EnsureCritical(r) ==
    /\ req[r].pc = "e_critical"
    /\ IF dbReady
       THEN /\ req' = [req EXCEPT ![r].pc = "e_release"]
            /\ UNCHANGED <<props, headers>>
       ELSE /\ headers' = [s \in SheetNames |-> IF headers[s] = 0 THEN 1 ELSE headers[s]]
            /\ props' = [DB_INITIALIZED |-> TRUE, SPREADSHEET_ID |-> TRUE]
            /\ req' = [req EXCEPT ![r].pc = "e_release", ![r].populate = TRUE]
    /\ UNCHANGED <<users, rows, master, nextId, lock, now>>

\* Where getDB() returns to.
Resume(r) == req[r].ret

\* finally { SCRIPT_LOCK.releaseLock() }: no effect unless this execution
\* holds the lock.
EnsureRelease(r) ==
    /\ req[r].pc = "e_release"
    /\ lock' = IF lock = r THEN 0 ELSE lock
    /\ req' = [req EXCEPT ![r].pc = IF req[r].populate THEN "e_populate" ELSE Resume(r)]
    /\ UNCHANGED <<props, headers, master, users, rows, nextId, now>>

\* initializeDefaultData: the test usersSheet.getLastRow() < 2.
PopulateCheck(r) ==
    /\ req[r].pc = "e_populate"
    /\ req' = [req EXCEPT ![r].pc = IF Len(users) = 0 THEN "e_setvalues" ELSE Resume(r),
                          ![r].populate = FALSE]
    /\ UNCHANGED <<props, headers, master, users, rows, nextId, lock, now>>

\* usersSheet.getRange(2, 1, rows.length, headers.length).setValues(rows): the
\* default users, passwords hashed, written over rows 2.. of the sheet.
PopulateSetValues(r) ==
    /\ req[r].pc = "e_setvalues"
    /\ users' = [i \in 1..(IF Len(users) > Len(defaultUsers) THEN Len(users)
                                                            ELSE Len(defaultUsers)) |->
                    IF i <= Len(defaultUsers)
                    THEN [defaultUsers[i] EXCEPT !.password = hashPassword(@)]
                    ELSE users[i]]
    /\ req' = [req EXCEPT ![r].pc = Resume(r)]
    /\ UNCHANGED <<props, headers, master, rows, nextId, lock, now>>


\* -------------------------------------------------------------------------
\* Handlers
\* -------------------------------------------------------------------------

\* A handler step that ends the request with `result`, outside the lock.
Return(r, result, data) ==
    req' = [req EXCEPT ![r].pc = "done", ![r].result = result, ![r].data = data,
                       ![r].read = "none", ![r].range = 0]

\* Requests on their way to the add branch for the Bookings sheet: the model
\* follows MaxBookings appends only.
Appending ==
    Cardinality({q \in Reqs : /\ req[q].op \in BookingWrites
                              /\ ~truthy(updateId(req[q]))
                              /\ \/ req[q].pc \in {"w_lock", "w_body"}
                                 \/ InFlight(q) /\ req[q].ret = "w_body"})

\* addBooking up to its call of addOrUpdateRecord.
AddBookingCheck(r) ==
    /\ req[r].pc = "main"
    /\ req[r].op = "addBooking"
    /\ req[r].read = "values"
    /\ IF conflict(sheetDataToObject(getValues(rows, req[r].range, blankRow)), req[r].arg)
       THEN Return(r, "Error: Booking conflict", <<>>)
       ELSE /\ nextId + Appending <= MaxBookings
            /\ req' = [req EXCEPT ![r].pc = "w_lock", ![r].read = "none", ![r].range = 0]
    /\ UNCHANGED <<props, headers, master, users, rows, nextId, lock, now>>

\* cancelBooking up to its call of addOrUpdateRecord.
CancelBookingCheck(r) ==
    /\ req[r].pc = "main"
    /\ req[r].op = "cancelBooking"
    /\ req[r].read = "values"
    /\ LET bookings == sheetDataToObject(getValues(rows, req[r].range, blankRow))
           i == findIndex(bookings, updateId(req[r]))
       IN  IF i = 0 THEN Return(r, "Error: Booking not found", <<>>)
           ELSE IF bookings[i].status # "Booked"
           THEN Return(r, "Error: Cannot cancel a booking that is already in use or completed.", <<>>)
           ELSE req' = [req EXCEPT ![r].pc = "w_lock", ![r].read = "none", ![r].range = 0]
    /\ UNCHANGED <<props, headers, master, users, rows, nextId, lock, now>>

\* The comparator of getBookingsWithStatus as the sort takes its result:
\* new Date(b.createdAt) - new Date(a.createdAt), and 0 where that is NaN
\* because one of the two has no valid createdAt.
compare(a, b) ==
    IF ~isValidDate(a.createdAt) \/ ~isValidDate(b.createdAt) THEN 0
    ELSE newDate(b.createdAt).t - newDate(a.createdAt).t

RECURSIVE countRun(_, _, _)
\* The length of the run the array starts with: the sort follows it from
\* element idx on while each element is in order behind the one before it
\* (below it when the run is descending).
countRun(a, idx, descending) ==
    IF idx > Len(a) THEN Len(a)
    ELSE LET order == compare(a[idx], a[idx - 1])
         IN  IF (descending /\ order >= 0) \/ (~descending /\ order < 0) THEN idx - 1
             ELSE countRun(a, idx + 1, descending)

\* The first n elements in reverse order.
reverseRun(a, n) == [j \in 1..Len(a) |-> IF j <= n THEN a[n + 1 - j] ELSE a[j]]

RECURSIVE binarySearch(_, _, _, _)
\* Where pivot goes among a[left], ..., a[right - 1]: behind every element it
\* does not compare below.
binarySearch(a, pivot, left, right) ==
    IF left >= right THEN left
    ELSE LET mid == left + (right - left) \div 2
         IN  IF compare(pivot, a[mid]) < 0 THEN binarySearch(a, pivot, left, mid)
             ELSE binarySearch(a, pivot, mid + 1, right)

RECURSIVE binaryInsertionSort(_, _)
\* The elements from start on, inserted one after the other into the sorted
\* elements before them.
binaryInsertionSort(a, start) ==
    IF start > Len(a) THEN a
    ELSE LET pivot == a[start]
             p == binarySearch(a, pivot, 1, start)
         IN  binaryInsertionSort(
                [j \in 1..Len(a) |->
                    IF j < p THEN a[j]
                    ELSE IF j = p THEN pivot
                    ELSE IF j <= start THEN a[j - 1]
                    ELSE a[j]],
                start + 1)

\* allBookings.sort((a, b) => new Date(b.createdAt) - new Date(a.createdAt)),
\* as the engine sorts an array of fewer than 64 elements: the run the array
\* starts with is found (and reversed when it descends) and the other
\* elements are inserted by binary search.  With rows that have no valid
\* createdAt the comparator is not an order, and the result is what these
\* steps leave.
sortByCreatedAt(bookings) ==
    IF Len(bookings) < 2 THEN bookings
    ELSE LET descending == compare(bookings[2], bookings[1]) < 0
             run == countRun(bookings, 3, descending)
         IN  binaryInsertionSort(IF descending THEN reverseRun(bookings, run) ELSE bookings,
                                 run + 1)

getBookingsByDate(sheetRows, date, t) ==
    LET allBookings == sheetDataToObject(sheetRows)
        byDate(b) == isDate(b.date) /\ formatDate(b.date) = date
    IN  calculateBookingStatus(SelectSeq(allBookings, byDate), t)

getBookingsWithStatus(sheetRows, t) ==
    calculateBookingStatus(sortByCreatedAt(sheetDataToObject(sheetRows)), t)

getReportData(sheetRows, filters, t) ==
    LET keep(b) ==
            /\ isValidDate(filters.startDate) =>
                    /\ isValidDate(b.date)
                    /\ newDate(b.date).t >= newDate(filters.startDate).t
            /\ isValidDate(filters.endDate) =>
                    /\ isValidDate(b.date)
                    /\ newDate(b.date).t <= newDate(filters.endDate).t
            /\ filters.program # "" => b.program = filters.program
            /\ filters.teacherId # "" => b.userId = filters.teacherId
            /\ filters.equipmentId # "" =>
                    /\ "array" \in DOMAIN b.equipment
                    /\ \E k \in DOMAIN b.equipment.array :
                            b.equipment.array[k] = filters.equipmentId
    IN  SelectSeq(getBookingsWithStatus(sheetRows, t), keep)

GetBookingsByDate(r) ==
    /\ req[r].pc = "main"
    /\ req[r].op = "getBookingsByDate"
    /\ req[r].read = "values"
    /\ Return(r, "ok", getBookingsByDate(getValues(rows, req[r].range, blankRow),
                                         req[r].arg.date, now))
    /\ UNCHANGED <<props, headers, master, users, rows, nextId, lock, now>>

\* GetBookingsWithStatus that writes the statuses it derives back to the sheet.
GetBookingsWithStatus_writesBack(r) ==
    /\ req[r].pc = "main"
    /\ req[r].op = "getBookingsWithStatus"
    /\ req[r].read = "values"
    /\ req' = [req EXCEPT ![r].pc = "done", ![r].result = "ok",
                          ![r].data = getBookingsWithStatus(
                                        getValues(rows, req[r].range, blankRow), now),
                          ![r].read = "none", ![r].range = 0]
    /\ rows' = [i \in DOMAIN rows |->
                    [rows[i] EXCEPT !.status = bookingStatus(sheetDataToObject(rows)[i], now).status]]
    /\ UNCHANGED <<props, headers, master, users, nextId, lock, now>>

GetBookingsWithStatus(r) ==
    /\ req[r].pc = "main"
    /\ req[r].op = "getBookingsWithStatus"
    /\ req[r].read = "values"
    /\ Return(r, "ok", getBookingsWithStatus(getValues(rows, req[r].range, blankRow), now))
    /\ UNCHANGED <<props, headers, master, users, rows, nextId, lock, now>>

GetReportData(r) ==
    /\ req[r].pc = "main"
    /\ req[r].op = "getReportData"
    /\ req[r].read = "values"
    /\ Return(r, "ok", getReportData(getValues(rows, req[r].range, blankRow),
                                     req[r].arg, now))
    /\ UNCHANGED <<props, headers, master, users, rows, nextId, lock, now>>

\* -------------------------------------------------------------------------
\* addOrUpdateRecord and deleteRecord
\* -------------------------------------------------------------------------

\* SCRIPT_LOCK.waitLock(15000) of addOrUpdateRecord and deleteRecord: the lock
\* is taken, or, while another execution holds it, the call waits and can time
\* out.
WaitLock(r) ==
    /\ req[r].pc = "w_lock"
    /\ IF lock \in {0, r}
       THEN /\ lock' = r
            /\ req' = [req EXCEPT ![r].pc = "w_body"]
       ELSE /\ lock' = lock
            /\ req' = [req EXCEPT ![r] = lockTimeout(@)]
    /\ UNCHANGED <<props, headers, master, users, rows, nextId, now>>

\* AddRecord with the fields of the payload laid over those the server sets.
AddRecord_payloadWins(r) ==
    /\ req[r].pc = "w_body"
    /\ req[r].op \in BookingWrites
    /\ ~truthy(updateId(req[r]))
    /\ dbReady
    /\ LET newId == nextId
           record == merge([id |-> newId, createdAt |-> toISOString([t |-> now]),
                            status |-> "Booked"],
                           updateData(req[r]))
       IN  /\ rows' = Append(rows, prepareRow(record))
           /\ nextId' = nextId + 1
           /\ req' = [req EXCEPT ![r].pc = "w_release", ![r].result = "ok",
                                 ![r].newId = newId, ![r].data = <<record>>]
    /\ UNCHANGED <<props, headers, master, users, lock, now>>

\* The add branch of addOrUpdateRecord('Bookings', data, id), taken when id
\* is null, undefined or the empty text.
AddRecord(r) ==
    /\ req[r].pc = "w_body"
    /\ req[r].op \in BookingWrites
    /\ ~truthy(updateId(req[r]))
    /\ dbReady
    /\ LET newId == nextId
           record == merge(merge(updateData(req[r]), [id |-> newId]),
                           [createdAt |-> toISOString([t |-> now]), status |-> "Booked"])
       IN  /\ rows' = Append(rows, prepareRow(record))
           /\ nextId' = nextId + 1
           /\ req' = [req EXCEPT ![r].pc = "w_release", ![r].result = "ok",
                                 ![r].newId = newId, ![r].data = <<record>>]
    /\ UNCHANGED <<props, headers, master, users, lock, now>>

\* The update branch of addOrUpdateRecord('Bookings', data, id) up to its
\* write: the sheet is read, the row of the id found and the update laid over
\* the row as it was read.
UpdateRecord(r) ==
    /\ req[r].pc = "w_body"
    /\ req[r].op \in BookingWrites
    /\ truthy(updateId(req[r]))
    /\ req[r].read = "values"
    /\ LET dataObjects == sheetDataToObject(getValues(rows, req[r].range, blankRow))
           rowIndex == findIndex(dataObjects, updateId(req[r]))
       IN  IF rowIndex > 0
           THEN req' = [req EXCEPT ![r].pc = "w_write", ![r].rowIndex = rowIndex,
                                   ![r].updatedData = merge(dataObjects[rowIndex],
                                                            updateData(req[r])),
                                   ![r].read = "none", ![r].range = 0]
           ELSE req' = [req EXCEPT ![r].pc = "w_release",
                                   ![r].result = "Error: Record not found",
                                   ![r].read = "none", ![r].range = 0]
    /\ UNCHANGED <<props, headers, master, users, rows, nextId, lock, now>>

\* sheet.getRange(rowIndex, 1, 1, headers.length).setValues([prepareRow(updatedData)])
\* and return updatedData: the row number found at the read is written to.
SetValues(r) ==
    /\ req[r].pc = "w_write"
    /\ req[r].op \in BookingWrites
    /\ rows' = setValues(rows, req[r].rowIndex, prepareRow(req[r].updatedData), blankRow)
    /\ req' = [req EXCEPT ![r].pc = "w_release", ![r].result = "ok",
                          ![r].data = <<req[r].updatedData>>]
    /\ UNCHANGED <<props, headers, master, users, nextId, lock, now>>

\* ReleaseLock that skips the release when the guarded section has thrown.
ReleaseLock_onSuccessOnly(r) ==
    /\ req[r].pc = "w_release"
    /\ lock' = IF lock = r /\ req[r].result = "ok" THEN 0 ELSE lock
    /\ req' = [req EXCEPT ![r].pc = "done"]
    /\ UNCHANGED <<props, headers, master, users, rows, nextId, now>>

\* finally { SCRIPT_LOCK.releaseLock() }, and the handler returns.
ReleaseLock(r) ==
    /\ req[r].pc = "w_release"
    /\ lock' = IF lock = r THEN 0 ELSE lock
    /\ req' = [req EXCEPT ![r].pc = "done"]
    /\ UNCHANGED <<props, headers, master, users, rows, nextId, now>>

\* -------------------------------------------------------------------------
\* Users: authenticate, getUsers, addUser, updateUser
\* -------------------------------------------------------------------------

\* User rows appended by addUser.
MaxUsers == 1

\* Inputs of the user requests.
Usernames == {"admin", "t9"}
Passwords == {"admin1234", "pw"}

UserHeaders == {DB_CONFIG.Users[i] : i \in DOMAIN DB_CONFIG.Users}

\* The ids generateId() hands out for user rows, in order.
uuids == <<"g1", "g2", "g3", "g4">>

\* prepareRow over the headers of the Users sheet.
prepareUserRow(record) ==
    [h \in UserHeaders |-> IF h \in DOMAIN record THEN record[h] ELSE ""]

\* const { password, ...rest } = user
withoutPassword(user) == [f \in DOMAIN user \ {"password"} |-> user[f]]

verifyPassword(password, hash) == hashPassword(password) = hash

\* The value a handler returns is kept as a list of objects: null is the
\* empty list, one object a list of one.
null == <<>>

\* What UserManagement sends for a new user.
AddUserPayloads ==
    [name : {"n9"}, username : Usernames, password : Passwords, role : {"teacher"}]

\* What UserManagement sends for an edited user, the password only when one
\* was typed, and the same payload with an empty password.
UpdateUserPayloads ==
    [name : {"n9"}, username : {"t9"}, role : {"teacher"}]
        \cup [name : {"n9"}, username : {"t9"}, password : {"pw2", ""}, role : {"teacher"}]

\* What a client posts as updateUser without the id of a user.
PostedUserPayloads == {[data |-> data] : data \in AddUserPayloads}

\* The handlers that call addOrUpdateRecord('Users', ...).
UserWrites == {"addUser", "updateUser"}

\* null or undefined where the id of a user can stand.
noUserId == "<undefined>"

\* if (id), for the id of a user.
truthyUserId(id) == id \notin {"", noUserId}

\* The id a handler passes to addOrUpdateRecord or deleteRecord for the Users
\* sheet.
userId(q) ==
    IF q.op = "addUser" THEN noUserId
    ELSE IF "id" \in DOMAIN q.arg THEN q.arg.id ELSE noUserId

\* The data a handler passes to addOrUpdateRecord('Users', data, id).
userData(q) == IF q.op = "addUser" THEN q.arg ELSE q.arg.data

\* A row of the Users sheet without content.
blankUserRow == [h \in UserHeaders |-> ""]

\* An id that no user ever has.
unknownUserId == "g0"

\* The ids a client can name: those it can have learnt from getUsers, and the
\* unknown one.
KnownUserIds ==
    {defaultUsers[i].id : i \in DOMAIN defaultUsers}
        \cup {uuids[i] : i \in 1..(nextId - 1)}
        \cup {users[i].id : i \in {j \in DOMAIN users : truthyUserId(users[j].id)}}
        \cup {unknownUserId}

StartAuthenticate(r) ==
    \E u \in Usernames, p \in Passwords :
        Begin(r, "authenticate", [username |-> u, password |-> p], "main")

StartGetUsers(r) == Begin(r, "getUsers", <<>>, "main")

\* Requests on their way to the add branch for the Users sheet: the model
\* follows MaxUsers appends only.
AddingUsers ==
    Cardinality({q \in Reqs : /\ req[q].op \in UserWrites
                              /\ ~truthyUserId(userId(req[q]))
                              /\ req[q].pc \notin {"idle", "w_release", "done"}})

StartAddUser(r) ==
    /\ nextId + AddingUsers <= MaxUsers
    /\ \E data \in AddUserPayloads : Begin(r, "addUser", data, "w_lock")

StartPostedUpdateUser(r) ==
    /\ nextId + AddingUsers <= MaxUsers
    /\ \E arg \in PostedUserPayloads : Begin(r, "updateUser", arg, "w_lock")

StartDeleteUser(r) ==
    \E id \in KnownUserIds : Begin(r, "deleteUser", [id |-> id], "w_lock")

StartUpdateUser(r) ==
    \E id \in KnownUserIds, data \in UpdateUserPayloads :
        Begin(r, "updateUser", [id |-> id, data |-> data], "w_lock")

\* users.find(u => u.username === username): the first such user, 0 when none.
findUser(userObjects, username) ==
    IF \E i \in DOMAIN userObjects : userObjects[i].username = username
    THEN CHOOSE i \in DOMAIN userObjects :
            /\ userObjects[i].username = username
            /\ \A j \in DOMAIN userObjects : userObjects[j].username = username => i <= j
    ELSE 0

authenticate(sheetUsers, username, password) ==
    LET userObjects == sheetDataToObject(sheetUsers)
        i == findUser(userObjects, username)
    IN  IF i # 0 /\ verifyPassword(password, userObjects[i].password)
        THEN <<withoutPassword(userObjects[i])>>
        ELSE null

getUsers(sheetUsers) ==
    [i \in DOMAIN sheetUsers |-> withoutPassword(sheetDataToObject(sheetUsers)[i])]

Authenticate(r) ==
    /\ req[r].pc = "main"
    /\ req[r].op = "authenticate"
    /\ req[r].read = "values"
    /\ Return(r, "ok", authenticate(getValues(users, req[r].range, blankUserRow),
                                    req[r].arg.username, req[r].arg.password))
    /\ UNCHANGED <<props, headers, master, users, rows, nextId, lock, now>>

GetUsers(r) ==
    /\ req[r].pc = "main"
    /\ req[r].op = "getUsers"
    /\ req[r].read = "values"
    /\ Return(r, "ok", getUsers(getValues(users, req[r].range, blankUserRow)))
    /\ UNCHANGED <<props, headers, master, users, rows, nextId, lock, now>>

\* The add branch of addOrUpdateRecord('Users', data, id), taken when id is
\* null, undefined or the empty text.
AddUser(r) ==
    /\ req[r].pc = "w_body"
    /\ req[r].op \in UserWrites
    /\ ~truthyUserId(userId(req[r]))
    /\ dbReady
    /\ LET newId == uuids[nextId]
           withId == merge(userData(req[r]), [id |-> newId])
           record == IF "password" \in DOMAIN withId /\ withId.password # ""
                     THEN [withId EXCEPT !.password = hashPassword(@)]
                     ELSE withId
       IN  /\ users' = Append(users, prepareUserRow(record))
           /\ nextId' = nextId + 1
           /\ req' = [req EXCEPT ![r].pc = "w_release", ![r].result = "ok",
                                 ![r].data = <<record>>]
    /\ UNCHANGED <<props, headers, master, rows, lock, now>>

\* dataToUpdate of the update branch for the Users sheet: a password that is
\* given and not empty is hashed, otherwise the field is dropped.
dataToUpdate(data) ==
    IF "password" \in DOMAIN data /\ data.password # ""
    THEN [data EXCEPT !.password = hashPassword(@)]
    ELSE [f \in DOMAIN data \ {"password"} |-> data[f]]

\* The update branch of addOrUpdateRecord('Users', data, id) up to its write.
UpdateUser(r) ==
    /\ req[r].pc = "w_body"
    /\ req[r].op \in UserWrites
    /\ truthyUserId(userId(req[r]))
    /\ req[r].read = "values"
    /\ LET dataObjects == sheetDataToObject(getValues(users, req[r].range, blankUserRow))
           rowIndex == findIndex(dataObjects, userId(req[r]))
       IN  IF rowIndex > 0
           THEN req' = [req EXCEPT ![r].pc = "w_write", ![r].rowIndex = rowIndex,
                                   ![r].updatedData =
                                        merge(dataObjects[rowIndex],
                                              dataToUpdate(userData(req[r]))),
                                   ![r].read = "none", ![r].range = 0]
           ELSE req' = [req EXCEPT ![r].pc = "w_release",
                                   ![r].result = "Error: Record not found",
                                   ![r].read = "none", ![r].range = 0]
    /\ UNCHANGED <<props, headers, master, users, rows, nextId, lock, now>>

\* setValues of the update branch for the Users sheet, and return updatedData.
UserSetValues(r) ==
    /\ req[r].pc = "w_write"
    /\ req[r].op \in UserWrites
    /\ users' = setValues(users, req[r].rowIndex, prepareUserRow(req[r].updatedData),
                          blankUserRow)
    /\ req' = [req EXCEPT ![r].pc = "w_release", ![r].result = "ok",
                          ![r].data = <<req[r].updatedData>>]
    /\ UNCHANGED <<props, headers, master, rows, nextId, lock, now>>

\* -------------------------------------------------------------------------
\* Classrooms and Equipment: the reads and addOrUpdateRecord
\* -------------------------------------------------------------------------

\* Rows ever appended to the Classrooms and the Equipment sheet.
MaxRecords == 1

MasterAdds == {"addClassroom", "addEquipment"}
MasterDeletes == {"deleteClassroom", "deleteEquipment"}

\* The handlers that call addOrUpdateRecord for a sheet of the master data.
MasterWrites == MasterAdds \cup {"updateClassroom", "updateEquipment"}

\* The sheet a handler of the master data names.
sheetName(op) ==
    IF op \in {"getEquipment", "addEquipment", "updateEquipment", "deleteEquipment"}
    THEN "Equipment"
    ELSE "Classrooms"

\* prepareRow over the headers of the sheet. A record without fields, <<>>,
\* gives the row whose cells are all empty.
prepareMasterRow(s, record) ==
    [h \in {DB_CONFIG[s][i] : i \in DOMAIN DB_CONFIG[s]} |->
        IF h \in DOMAIN record THEN record[h] ELSE ""]

\* The id a handler passes to addOrUpdateRecord or deleteRecord for a sheet of
\* the master data.
recordId(q) ==
    IF q.op \in MasterAdds THEN noUserId
    ELSE IF "id" \in DOMAIN q.arg THEN q.arg.id ELSE noUserId

\* The data a handler passes to addOrUpdateRecord for a sheet of the master
\* data.
recordData(q) == IF q.op \in MasterAdds THEN q.arg ELSE q.arg.data

\* What the client sends for a record of the sheet: a classroom or a piece of
\* equipment.
RecordPayloads(s) ==
    IF s = "Classrooms"
    THEN [program : {"Thai Programme", "English Programme", "Kindergarten"},
          name_th : {"th1"}, name_en : {"en1"}]
    ELSE [name_th : {"th1", "th2"}, name_en : {"en1"}]

\* The ids a client can name for a record of the sheet: those handed out so
\* far, those the sheet holds, and the unknown one.
KnownRecordIds(s) ==
    {uuids[i] : i \in 1..(nextId - 1)}
        \cup {master[s][i].id : i \in {j \in DOMAIN master[s] : truthyUserId(master[s][j].id)}}
        \cup {unknownUserId}

StartGetEquipment(r) == Begin(r, "getEquipment", <<>>, "main")

StartGetAllClassrooms(r) == Begin(r, "getAllClassrooms", <<>>, "main")

StartGetClassroomsByProgram(r) ==
    \E program \in {c.program : c \in RecordPayloads("Classrooms")} :
        Begin(r, "getClassroomsByProgram", [program |-> program], "main")

\* addClassroom and addEquipment. The model follows MaxRecords appends only:
\* the executions on their way to the add branch are counted.
StartAddMaster(r) ==
    /\ nextId + Cardinality({q \in Reqs : /\ req[q].op \in MasterWrites
                                          /\ ~truthyUserId(recordId(req[q]))
                                          /\ req[q].pc \notin {"idle", "w_release", "done"}})
            <= MaxRecords
    /\ \E op \in MasterAdds :
            \E data \in RecordPayloads(sheetName(op)) : Begin(r, op, data, "w_lock")

\* updateClassroom and updateEquipment.
StartUpdateMaster(r) ==
    \E op \in MasterWrites \ MasterAdds :
        \E id \in KnownRecordIds(sheetName(op)), data \in RecordPayloads(sheetName(op)) :
            Begin(r, op, [id |-> id, data |-> data], "w_lock")

\* deleteClassroom and deleteEquipment.
StartDeleteMaster(r) ==
    \E op \in MasterDeletes :
        \E id \in KnownRecordIds(sheetName(op)) :
            Begin(r, op, [id |-> id], "w_lock")

\* getAllClassrooms().filter(c => c.program === program)
getClassroomsByProgram(sheetRows, program) ==
    SelectSeq(sheetDataToObject(sheetRows), LAMBDA c : c.program = program)

\* getEquipment, getAllClassrooms and getClassroomsByProgram once the sheet is
\* read.
GetMasterData(r) ==
    /\ req[r].pc = "main"
    /\ req[r].op \in {"getEquipment", "getAllClassrooms", "getClassroomsByProgram"}
    /\ req[r].read = "values"
    /\ LET s == sheetName(req[r].op)
           values == getValues(master[s], req[r].range, prepareMasterRow(s, <<>>))
       IN  Return(r, "ok",
                  IF req[r].op = "getClassroomsByProgram"
                  THEN getClassroomsByProgram(values, req[r].arg.program)
                  ELSE sheetDataToObject(values))
    /\ UNCHANGED <<props, headers, master, users, rows, nextId, lock, now>>

\* The add branch of addOrUpdateRecord for a sheet of the master data, taken
\* when id is null, undefined or the empty text.
AddMasterRecord(r) ==
    /\ req[r].pc = "w_body"
    /\ req[r].op \in MasterWrites
    /\ ~truthyUserId(recordId(req[r]))
    /\ dbReady
    /\ LET s == sheetName(req[r].op)
           newId == uuids[nextId]
           record == merge(recordData(req[r]), [id |-> newId])
       IN  /\ master' = [master EXCEPT ![s] = Append(@, prepareMasterRow(s, record))]
           /\ nextId' = nextId + 1
           /\ req' = [req EXCEPT ![r].pc = "w_release", ![r].result = "ok",
                                 ![r].data = <<record>>]
    /\ UNCHANGED <<props, headers, users, rows, lock, now>>

\* The update branch of addOrUpdateRecord for a sheet of the master data up to
\* its write.
UpdateMasterRecord(r) ==
    /\ req[r].pc = "w_body"
    /\ req[r].op \in MasterWrites
    /\ truthyUserId(recordId(req[r]))
    /\ req[r].read = "values"
    /\ LET s == sheetName(req[r].op)
           dataObjects == sheetDataToObject(getValues(master[s], req[r].range,
                                                      prepareMasterRow(s, <<>>)))
           rowIndex == findIndex(dataObjects, recordId(req[r]))
       IN  IF rowIndex > 0
           THEN req' = [req EXCEPT ![r].pc = "w_write", ![r].rowIndex = rowIndex,
                                   ![r].updatedData = merge(dataObjects[rowIndex],
                                                            recordData(req[r])),
                                   ![r].read = "none", ![r].range = 0]
           ELSE req' = [req EXCEPT ![r].pc = "w_release",
                                   ![r].result = "Error: Record not found",
                                   ![r].read = "none", ![r].range = 0]
    /\ UNCHANGED <<props, headers, master, users, rows, nextId, lock, now>>

\* setValues of the update branch for a sheet of the master data, and return
\* updatedData.
MasterSetValues(r) ==
    /\ req[r].pc = "w_write"
    /\ req[r].op \in MasterWrites
    /\ LET s == sheetName(req[r].op)
       IN  master' = [master EXCEPT ![s] =
                        setValues(@, req[r].rowIndex,
                                  prepareMasterRow(s, req[r].updatedData),
                                  prepareMasterRow(s, <<>>))]
    /\ req' = [req EXCEPT ![r].pc = "w_release", ![r].result = "ok",
                          ![r].data = <<req[r].updatedData>>]
    /\ UNCHANGED <<props, headers, users, rows, nextId, lock, now>>

\* -------------------------------------------------------------------------
\* deleteRecord
\* -------------------------------------------------------------------------

\* deleteRecord(sheetName, id) up to its deleteRow: the sheet is read and the
\* row of the id found.
DeleteRecord(r) ==
    /\ req[r].pc = "w_body"
    /\ req[r].op \in {"deleteBooking", "deleteUser"} \cup MasterDeletes
    /\ req[r].read = "values"
    /\ LET rowIndex ==
            IF req[r].op = "deleteBooking"
            THEN findIndex(sheetDataToObject(getValues(rows, req[r].range, blankRow)),
                           updateId(req[r]))
            ELSE IF req[r].op = "deleteUser"
            THEN findIndex(sheetDataToObject(getValues(users, req[r].range, blankUserRow)),
                           userId(req[r]))
            ELSE findIndex(sheetDataToObject(
                                getValues(master[sheetName(req[r].op)], req[r].range,
                                          prepareMasterRow(sheetName(req[r].op), <<>>))),
                           recordId(req[r]))
       IN  IF rowIndex > 0
           THEN req' = [req EXCEPT ![r].pc = "w_delete", ![r].rowIndex = rowIndex,
                                   ![r].read = "none", ![r].range = 0]
           ELSE req' = [req EXCEPT ![r].pc = "w_release",
                                   ![r].result = "Error: Record not found",
                                   ![r].read = "none", ![r].range = 0]
    /\ UNCHANGED <<props, headers, master, users, rows, nextId, lock, now>>

\* sheet.deleteRow(rowIndex) and return { success: true }: the row number
\* found at the read is deleted.
DeleteRow(r) ==
    /\ req[r].pc = "w_delete"
    /\ IF req[r].op = "deleteBooking"
       THEN /\ rows' = trimRows(deleteRow(rows, req[r].rowIndex), blankRow)
            /\ UNCHANGED <<users, master>>
       ELSE IF req[r].op = "deleteUser"
       THEN /\ users' = trimRows(deleteRow(users, req[r].rowIndex), blankUserRow)
            /\ UNCHANGED <<rows, master>>
       ELSE /\ LET s == sheetName(req[r].op)
               IN  master' = [master EXCEPT ![s] =
                                trimRows(deleteRow(@, req[r].rowIndex), prepareMasterRow(s, <<>>))]
            /\ UNCHANGED <<users, rows>>
    /\ req' = [req EXCEPT ![r].pc = "w_release", ![r].result = "ok",
                          ![r].data = <<[success |-> TRUE]>>]
    /\ UNCHANGED <<props, headers, nextId, lock, now>>

\* -------------------------------------------------------------------------
\* sheetDataToObject: the reads of a sheet
\* -------------------------------------------------------------------------

\* The handler is where it calls sheetDataToObject.
AtRead(q) ==
    \/ /\ q.pc = "main"
       /\ q.op \in ReadOps
                    \cup {"addBooking", "cancelBooking", "authenticate", "getUsers"}
                    \cup {"getEquipment", "getAllClassrooms", "getClassroomsByProgram"}
    \/ /\ q.pc = "w_body"
       /\ \/ q.op \in BookingWrites /\ truthy(updateId(q))
          \/ q.op \in UserWrites /\ truthyUserId(userId(q))
          \/ q.op \in MasterWrites /\ truthyUserId(recordId(q))
          \/ q.op \in {"deleteBooking", "deleteUser"} \cup MasterDeletes

\* The number of data rows of the sheet the handler of q reads.
lastDataRow(q) ==
    IF q.op \in UserWrites \cup {"authenticate", "getUsers", "deleteUser"}
    THEN Len(users)
    ELSE IF q.op \in ReadOps \cup BookingWrites \cup {"deleteBooking"}
    THEN Len(rows)
    ELSE Len(master[sheetName(q.op)])

\* getDB() on a database that is set up, and sheet.getLastRow() < 2: a sheet
\* with its header row only is read as [] without a further call.
GetLastRow(r) ==
    /\ AtRead(req[r])
    /\ dbReady
    /\ req[r].read = "none"
    /\ req' = [req EXCEPT ![r].read = IF lastDataRow(req[r]) = 0 THEN "values" ELSE "range"]
    /\ UNCHANGED <<props, headers, master, users, rows, nextId, lock, now>>

\* sheet.getDataRange(): the range keeps the rows the sheet has at this call.
\* The getValues() that follows is the first step of the handler's own action.
GetDataRange(r) ==
    /\ req[r].read = "range"
    /\ req' = [req EXCEPT ![r].read = "values", ![r].range = lastDataRow(req[r])]
    /\ UNCHANGED <<props, headers, master, users, rows, nextId, lock, now>>

\* -------------------------------------------------------------------------
\* The dispatcher
\* -------------------------------------------------------------------------

\* The keys of actionMap.
ActionNames ==
    {"authenticate", "getEquipment", "getClassroomsByProgram", "getAllClassrooms",
     "getBookingsByDate", "getBookingsWithStatus", "getReportData", "getUsers",
     "addBooking", "updateBooking", "deleteBooking", "cancelBooking", "confirmReturn",
     "addUser", "updateUser", "deleteUser", "addClassroom", "updateClassroom",
     "deleteClassroom", "addEquipment", "updateEquipment", "deleteEquipment"}

\* The properties every object literal inherits from Object.prototype that
\* are functions.
ObjectPrototypeFunctions ==
    {"constructor", "toString", "toLocaleString", "valueOf", "hasOwnProperty",
     "isPrototypeOf", "propertyIsEnumerable", "__defineGetter__", "__defineSetter__",
     "__lookupGetter__", "__lookupSetter__"}

\* Action strings that are no key of actionMap; "" stands for a missing action.
OtherActions == {"", "bogus", "__proto__"} \cup ObjectPrototypeFunctions

\* A payload that is missing, and the object {}.
undefined == [undefined |-> TRUE]
emptyObject == [f \in {} |-> f]

\* The payloads sent along with such an action: none, or some object.
OtherPayloads == {undefined, [x |-> 1]}

\* typeof actionMap[action] for an action that is no key of the object
\* literal: the property is looked up on Object.prototype.
inheritedProperty(action) ==
    IF action \in ObjectPrototypeFunctions THEN "function"
    ELSE IF action = "__proto__" THEN "object"
    ELSE "undefined"

\* func(params) for a function of Object.prototype, called without a receiver:
\* Object(params) returns the object it is given or a new one, toString names
\* its missing receiver, isPrototypeOf answers false for an argument that is
\* no object before it looks at its receiver, and every other function throws
\* when it converts the receiver to an object.
inheritedCall(action, params) ==
    CASE action = "constructor" ->
            [result |-> "ok", data |-> <<IF params = undefined THEN emptyObject ELSE params>>]
      [] action = "toString" -> [result |-> "ok", data |-> <<"[object Undefined]">>]
      [] action = "isPrototypeOf" /\ params = undefined ->
            [result |-> "ok", data |-> <<FALSE>>]
      [] action = "toLocaleString" ->
            [result |-> "TypeError: Object.prototype.toLocaleString called on null or undefined",
             data |-> <<>>]
      [] OTHER ->
            [result |-> "TypeError: Cannot convert undefined or null to object",
             data |-> <<>>]

\* doPost and handleRequest for an action string that is no key of actionMap.
Dispatch(r) ==
    /\ req[r].pc = "route"
    /\ IF req[r].op = ""
       THEN Return(r, "Fatal error in POST handler: Error: 'action' key missing in POST payload.", <<>>)
       ELSE IF inheritedProperty(req[r].op) # "function"
       THEN Return(r, "Error: Invalid action", <<>>)
       ELSE LET out == inheritedCall(req[r].op, req[r].arg)
            IN  Return(r, out.result, out.data)
    /\ UNCHANGED <<props, headers, master, users, rows, nextId, lock, now>>

StartOther(r) ==
    \E a \in OtherActions, params \in OtherPayloads : Begin(r, a, params, "route")

\* The object handleRequest (or the catch of doPost) hands to
\* createJsonResponse for a finished request.
response(q) ==
    IF q.result = "ok" THEN [success |-> TRUE, data |-> q.data]
    ELSE [success |-> FALSE, message |-> q.result, stack |-> "stack"]

\* createJsonResponse: the response leaves and the execution ends.
Finish(r) ==
    /\ req[r].pc = "done"
    /\ req' = [q \in Reqs |->
                IF q = r THEN Idle ELSE [req[q] EXCEPT !.overlap = @ \ {r}]]
    /\ UNCHANGED <<props, headers, master, users, rows, nextId, lock, now>>

\* The clock moves on to a later instant, a minute later at the least: every
\* waitLock that is still waiting for another execution's lock has timed out
\* by then.
Tick ==
    /\ \E t \in TickTimes : t > now /\ now' = t
    /\ req' = [r \in Reqs |->
                IF req[r].pc \in {"e_wait", "w_lock"} /\ lock \notin {0, r}
                THEN lockTimeout(req[r])
                ELSE req[r]]
    /\ UNCHANGED <<props, headers, master, users, rows, nextId, lock>>

\* The steps of execution r that follow the start of its handler, for the
\* booking handlers and an action that is no key of actionMap.  The steps of
\* the user handlers are in NextUsers, those of the classroom and equipment
\* handlers in NextData.
Step(r) ==
    \/ Dispatch(r)
    \/ GetDBSlowPath(r)
    \/ EnsureWaitLock(r)
    \/ EnsureCritical(r)
    \/ EnsureRelease(r)
    \/ PopulateCheck(r)
    \/ PopulateSetValues(r)
    \/ GetLastRow(r)
    \/ GetDataRange(r)
    \/ AddBookingCheck(r)
    \/ CancelBookingCheck(r)
    \/ GetBookingsByDate(r)
    \/ GetBookingsWithStatus(r)
    \/ GetReportData(r)
    \/ WaitLock(r)
    \/ AddRecord(r)
    \/ UpdateRecord(r)
    \/ SetValues(r)
    \/ DeleteRecord(r)
    \/ DeleteRow(r)
    \/ ReleaseLock(r)
    \/ Finish(r)

Next ==
    \/ \E r \in {1} :
        \/ StartAddBooking(r)
        \/ StartUpdateBooking(r)
        \/ StartDeleteBooking(r)
        \/ StartConfirmReturn(r)
        \/ StartCancelBooking(r)
        \/ StartGetBookingsByDate(r)
        \/ StartGetBookingsWithStatus(r)
        \/ StartGetReportData(r)
        \/ StartOther(r)
        \/ Step(r)
    \/ Tick

Spec == Init /\ [][Next]_vars


\* The user requests, served one after another.
NextUsers ==
    \E r \in {1} :
        \/ StartAuthenticate(r)
        \/ StartGetUsers(r)
        \/ StartAddUser(r)
        \/ StartUpdateUser(r)
        \/ StartPostedUpdateUser(r)
        \/ StartDeleteUser(r)
        \/ GetDBSlowPath(r)
        \/ EnsureWaitLock(r)
        \/ EnsureCritical(r)
        \/ EnsureRelease(r)
        \/ PopulateCheck(r)
        \/ PopulateSetValues(r)
        \/ GetLastRow(r)
        \/ GetDataRange(r)
        \/ Authenticate(r)
        \/ GetUsers(r)
        \/ WaitLock(r)
        \/ AddUser(r)
        \/ UpdateUser(r)
        \/ UserSetValues(r)
        \/ DeleteRecord(r)
        \/ DeleteRow(r)
        \/ ReleaseLock(r)
        \/ Finish(r)

SpecUsers == Init /\ [][NextUsers]_vars


\* The requests for classrooms and equipment, two executions that interleave
\* while the database may still have to be set up.
NextData ==
    \E r \in Reqs :
        \/ StartGetEquipment(r)
        \/ StartGetAllClassrooms(r)
        \/ StartGetClassroomsByProgram(r)
        \/ StartAddMaster(r)
        \/ StartUpdateMaster(r)
        \/ StartDeleteMaster(r)
        \/ GetDBSlowPath(r)
        \/ EnsureWaitLock(r)
        \/ EnsureCritical(r)
        \/ EnsureRelease(r)
        \/ PopulateCheck(r)
        \/ PopulateSetValues(r)
        \/ GetLastRow(r)
        \/ GetDataRange(r)
        \/ GetMasterData(r)
        \/ WaitLock(r)
        \/ AddMasterRecord(r)
        \/ UpdateMasterRecord(r)
        \/ MasterSetValues(r)
        \/ DeleteRecord(r)
        \/ DeleteRow(r)
        \/ ReleaseLock(r)
        \/ Finish(r)

SpecData == Init /\ [][NextData]_vars


\* -------------------------------------------------------------------------
\* Requests posted to the web app by any client: the payload is whatever JSON
\* the request carries.
\* -------------------------------------------------------------------------

\* Fields a posted booking may carry besides those of the form.
ExtraFields == {<<>>, [id |-> 9, status |-> "Returned", createdAt |-> [iso |-> 99]]}

\* Periods a posted booking may name.
PostedPeriods == {1, 7}

PostedPayloads ==
    {merge([userId |-> "u1", type |-> "Booking", teacherName |-> "t1",
            program |-> "Thai Programme", classroom |-> c, period |-> p,
            date |-> d, equipment |-> [array |-> <<"e1">>], learningPlan |-> "lp1"], x) :
        c \in {"c1"}, p \in PostedPeriods, d \in Dates, x \in ExtraFields}

StartPostedAddBooking(r) == \E data \in PostedPayloads : Begin(r, "addBooking", data, "main")

\* updateBooking posted with the id of a booking, with an empty id or with
\* none.
StartPostedUpdateBooking(r) ==
    \E data \in PostedPayloads :
        \/ \E id \in BookingIds :
                Begin(r, "updateBooking", [id |-> id, data |-> data], "w_lock")
        \/ /\ nextId + Appending <= MaxBookings
           /\ \E arg \in {[id |-> 0, data |-> data], [data |-> data]} :
                Begin(r, "updateBooking", arg, "w_lock")

\* The database set up, the default users in place, no booking yet.
InitReady ==
    /\ props = [DB_INITIALIZED |-> TRUE, SPREADSHEET_ID |-> TRUE]
    /\ headers = [s \in SheetNames |-> 1]
    /\ users = [i \in DOMAIN defaultUsers |->
                    [defaultUsers[i] EXCEPT !.password = hashPassword(@)]]
    /\ rows = <<>>
    /\ master = [s \in {"Classrooms", "Equipment"} |-> <<>>]
    /\ nextId = 1
    /\ lock = 0
    /\ now = 0
    /\ req = [r \in Reqs |-> Idle]

NextPosted ==
    \/ \E r \in {1} :
        \/ StartPostedAddBooking(r)
        \/ StartPostedUpdateBooking(r)
        \/ GetLastRow(r)
        \/ GetDataRange(r)
        \/ AddBookingCheck(r)
        \/ WaitLock(r)
        \/ AddRecord(r)
        \/ UpdateRecord(r)
        \/ SetValues(r)
        \/ ReleaseLock(r)
        \/ Finish(r)
    \/ Tick

SpecPosted == InitReady /\ [][NextPosted]_vars


\* First requests that arrive together on a database not yet set up.
NextInit ==
    \E r \in Reqs :
        \/ StartAddUser(r)
        \/ StartGetUsers(r)
        \/ StartDeleteUser(r)
        \/ GetDBSlowPath(r)
        \/ EnsureWaitLock(r)
        \/ EnsureCritical(r)
        \/ EnsureRelease(r)
        \/ PopulateCheck(r)
        \/ PopulateSetValues(r)
        \/ GetLastRow(r)
        \/ GetDataRange(r)
        \/ GetUsers(r)
        \/ WaitLock(r)
        \/ AddUser(r)
        \/ DeleteRecord(r)
        \/ DeleteRow(r)
        \/ ReleaseLock(r)
        \/ Finish(r)

SpecInit == Init /\ [][NextInit]_vars


\* -------------------------------------------------------------------------
\* The read operations: two stored bookings of any days, read by date, with
\* their status and for the report.
\* -------------------------------------------------------------------------

\* The rows the Bookings sheet can hold for the booking `id` of period 1.
DayRows(id) ==
    {prepareRow(merge([id |-> id, userId |-> "u1", type |-> "Booking",
                       teacherName |-> "t1", program |-> "Thai Programme",
                       classroom |-> c, period |-> 1, date |-> d,
                       equipment |-> [array |-> <<"e1">>], learningPlan |-> "lp1",
                       createdAt |-> [iso |-> 0]], st)) :
        c \in Classrooms, d \in ReadDates \cup EditedDates,
        st \in {[status |-> "Booked"],
                [status |-> "Returned", returnedAt |-> [iso |-> 0], returnedBy |-> "admin"]}}

InitByDate ==
    /\ props = [DB_INITIALIZED |-> TRUE, SPREADSHEET_ID |-> TRUE]
    /\ headers = [s \in SheetNames |-> 1]
    /\ users = [i \in DOMAIN defaultUsers |->
                    [defaultUsers[i] EXCEPT !.password = hashPassword(@)]]
    /\ \E row1 \in DayRows(1), row2 \in DayRows(2) : rows = <<row1, row2>>
    /\ master = [s \in {"Classrooms", "Equipment"} |-> <<>>]
    /\ nextId = 3
    /\ lock = 0
    /\ now = 0
    /\ req = [r \in Reqs |-> Idle]

NextByDate ==
    \/ \E r \in {1} :
        \/ StartGetBookingsByDate(r)
        \/ StartGetBookingsWithStatus(r)
        \/ StartGetReportData(r)
        \/ GetLastRow(r)
        \/ GetDataRange(r)
        \/ GetBookingsByDate(r)
        \/ GetBookingsWithStatus(r)
        \/ GetReportData(r)
        \/ Finish(r)
    \/ Tick

SpecByDate == InitByDate /\ [][NextByDate]_vars


\* Executions that interleave: users edited while the database may still have
\* to be set up.
NextUsersConc ==
    \E r \in Reqs :
        \/ StartUpdateUser(r)
        \/ GetDBSlowPath(r)
        \/ EnsureWaitLock(r)
        \/ EnsureCritical(r)
        \/ EnsureRelease(r)
        \/ PopulateCheck(r)
        \/ PopulateSetValues(r)
        \/ WaitLock(r)
        \/ GetLastRow(r)
        \/ GetDataRange(r)
        \/ UpdateUser(r)
        \/ UserSetValues(r)
        \/ ReleaseLock(r)
        \/ Finish(r)

SpecUsersConc == Init /\ [][NextUsersConc]_vars


\* Executions that interleave: bookings made and deleted while the database
\* may still have to be set up.
NextConc ==
    \E r \in Reqs :
        \/ StartAddBooking(r)
        \/ StartDeleteBooking(r)
        \/ GetDBSlowPath(r)
        \/ EnsureWaitLock(r)
        \/ EnsureCritical(r)
        \/ EnsureRelease(r)
        \/ PopulateCheck(r)
        \/ PopulateSetValues(r)
        \/ GetLastRow(r)
        \/ GetDataRange(r)
        \/ AddBookingCheck(r)
        \/ WaitLock(r)
        \/ AddRecord(r)
        \/ DeleteRecord(r)
        \/ DeleteRow(r)
        \/ ReleaseLock(r)
        \/ Finish(r)

SpecConc == Init /\ [][NextConc]_vars


\* -------------------------------------------------------------------------
\* A deployment that finds its spreadsheet: DriveApp.getFilesByName has a
\* file (files.hasNext() in ensureDatabaseInitialized), left by an earlier
\* deployment with its sheets, its users and a booking, while the script
\* properties are not set yet. The booking is edited, returned, cancelled and
\* deleted by executions that interleave.
\* -------------------------------------------------------------------------

\* The rows found for the booking `id`: a booking of classroom c1 that was not
\* returned.
FoundRows(id) ==
    {row \in DayRows(id) : row.classroom = "c1" /\ row.status = "Booked"}

InitFound ==
    /\ props = [DB_INITIALIZED |-> FALSE, SPREADSHEET_ID |-> FALSE]
    /\ headers = [s \in SheetNames |-> 1]
    /\ users = [i \in DOMAIN defaultUsers |->
                    [defaultUsers[i] EXCEPT !.password = hashPassword(@)]]
    /\ \E row \in FoundRows(1) : rows = <<row>>
    /\ master = [s \in {"Classrooms", "Equipment"} |-> <<>>]
    /\ nextId = 2
    /\ lock = 0
    /\ now = 0
    /\ req = [r \in Reqs |-> Idle]

NextFound ==
    \E r \in Reqs :
        \/ StartUpdateBooking(r)
        \/ StartConfirmReturn(r)
        \/ StartCancelBooking(r)
        \/ StartDeleteBooking(r)
        \/ GetDBSlowPath(r)
        \/ EnsureWaitLock(r)
        \/ EnsureCritical(r)
        \/ EnsureRelease(r)
        \/ PopulateCheck(r)
        \/ GetLastRow(r)
        \/ GetDataRange(r)
        \/ CancelBookingCheck(r)
        \/ WaitLock(r)
        \/ UpdateRecord(r)
        \/ SetValues(r)
        \/ DeleteRecord(r)
        \/ DeleteRow(r)
        \/ ReleaseLock(r)
        \/ Finish(r)

SpecFound == InitFound /\ [][NextFound]_vars


\* -------------------------------------------------------------------------
\* The status model: one stored booking of any day, period and stored status,
\* read again and again while the clock runs minute by minute.
\* -------------------------------------------------------------------------

\* The rows the Bookings sheet can hold for one booking.
StatusRows ==
    {prepareRow(merge(merge(data, [id |-> 1, createdAt |-> [iso |-> 0]]), st)) :
        data \in [userId : UserIds, type : {"Booking"}, teacherName : {"t1"},
                  program : {"Thai Programme"}, classroom : {"c1"},
                  period : DOMAIN periodTimes, date : ReadDates \cup EditedDates,
                  equipment : {[array |-> <<"e1">>]}, learningPlan : Plans],
        st \in {[status |-> "Booked"], [status |-> "Not Used"],
                [status |-> "Returned", returnedAt |-> [iso |-> 0], returnedBy |-> "admin"]}}

InitStatus ==
    /\ props = [DB_INITIALIZED |-> TRUE, SPREADSHEET_ID |-> TRUE]
    /\ headers = [s \in SheetNames |-> 1]
    /\ users = [i \in DOMAIN defaultUsers |->
                    [defaultUsers[i] EXCEPT !.password = hashPassword(@)]]
    /\ \E row \in StatusRows : rows = <<row>>
    /\ master = [s \in {"Classrooms", "Equipment"} |-> <<>>]
    /\ nextId = 2
    /\ lock = 0
    /\ now = 0
    /\ req = [r \in Reqs |-> Idle]

\* A minute passes: every waitLock that is still waiting for another
\* execution's lock has timed out by then.
TickMinute ==
    /\ now + 1 < (MaxDay + 1) * MinutesPerDay
    /\ now' = now + 1
    /\ req' = [r \in Reqs |->
                IF req[r].pc \in {"e_wait", "w_lock"} /\ lock \notin {0, r}
                THEN lockTimeout(req[r])
                ELSE req[r]]
    /\ UNCHANGED <<props, headers, master, users, rows, nextId, lock>>

NextStatus ==
    \/ \E r \in {1} :
        \/ StartGetBookingsByDate(r)
        \/ StartGetBookingsWithStatus(r)
        \/ GetLastRow(r)
        \/ GetDataRange(r)
        \/ GetBookingsByDate(r)
        \/ GetBookingsWithStatus(r)
        \/ Finish(r)
    \/ TickMinute

SpecStatus == InitStatus /\ [][NextStatus]_vars

\* The same stored booking and clock, read by getBookingsWithStatus alone.
NextClock ==
    \/ \E r \in {1} :
        \/ StartGetBookingsWithStatus(r)
        \/ GetLastRow(r)
        \/ GetDataRange(r)
        \/ GetBookingsWithStatus(r)
        \/ Finish(r)
    \/ TickMinute

SpecClock == InitStatus /\ [][NextClock]_vars


\* -------------------------------------------------------------------------
\* Properties
\* -------------------------------------------------------------------------

\* A booking that still holds its slot, as the specification counts it.
NonTerminal(b) == b.status \notin {"Returned", "Not Used"}

\* The day a date names in the script time zone, in whatever form it is held:
\* a Date, a 'yyyy-MM-dd' text or the ISO text of an instant; no day for the
\* empty text.
noDay == 0 - 1

DayOf(v) ==
    IF isDateString(v) THEN v.ymd
    ELSE IF isDate(v) THEN v.t \div MinutesPerDay
    ELSE IF "iso" \in DOMAIN v THEN v.iso \div MinutesPerDay
    ELSE noDay

SameSlot(a, b) ==
    /\ a.classroom = b.classroom
    /\ DayOf(a.date) # noDay
    /\ DayOf(a.date) = DayOf(b.date)
    /\ a.period = b.period

\* The row of the booking `id`, 0 when the sheet holds none.
RowOf(sheetRows, id) == findIndex(sheetRows, id)

\* Execution r takes the step (the end of another execution only takes that
\* execution off r's record of the requests it overlaps).
Acts(r) == [req'[r] EXCEPT !.overlap = {}] # [req[r] EXCEPT !.overlap = {}]

\* C1: in every reachable state, for each (classroom, date, period) at most
\* one stored booking has a status other than Returned or Not Used.
C1_AtMostOneNonTerminalPerSlot ==
    \A i, j \in DOMAIN rows :
        (i # j /\ SameSlot(rows[i], rows[j])) => ~(NonTerminal(rows[i]) /\ NonTerminal(rows[j]))

\* The condition C2 names: some stored booking has the classroom, date and
\* period of the request and a status other than Returned or Not Used.
SlotTaken(sheetRows, data) ==
    \E i \in DOMAIN sheetRows :
        /\ SameSlot(sheetRows[i], data)
        /\ NonTerminal(sheetRows[i])

\* C2: addBooking is rejected with 'Booking conflict' and appends no row when
\* the slot is taken in the rows it reads; otherwise it goes on to append
\* exactly one new row, and it ends either rejected or with its row appended.
C2_AddBookingConflict ==
    [][\A r \in Reqs :
        (req[r].op = "addBooking" /\ Acts(r)) =>
            /\ (req[r].pc = "main" /\ req[r].read = "values") =>
                    IF SlotTaken(rows, req[r].arg)
                    THEN /\ req'[r].pc = "done"
                         /\ req'[r].result = "Error: Booking conflict"
                         /\ req'[r].newId = 0
                         /\ rows' = rows
                    ELSE /\ req'[r].pc = "w_lock"
                         /\ rows' = rows
            /\ rows' # rows =>
                    /\ req[r].newId = 0
                    /\ req'[r].newId # 0
                    /\ req'[r].result = "ok"
                    /\ RowOf(rows, req'[r].newId) = 0
                    /\ Len(rows') = Len(rows) + 1
                    /\ SubSeq(rows', 1, Len(rows)) = rows
                    /\ rows'[Len(rows')].id = req'[r].newId
                    /\ rows'[Len(rows')].status = "Booked"
            /\ req'[r].pc = "done" =>
                    \/ req'[r].result = "Error: Booking conflict" /\ req'[r].newId = 0
                    \/ req'[r].result = "ok" /\ req'[r].newId # 0
    ]_vars

\* Two requests were in flight at the same time.
Overlap(r1, r2) == r2 \in req[r1].overlap \/ r1 \in req[r2].overlap

\* C3: of two addBooking requests for the same slot that are processed
\* concurrently, at most one appends a booking row.
C3_OneOfTwoConcurrentAdds ==
    \A r1, r2 \in Reqs :
        (/\ r1 # r2
         /\ req[r1].op = "addBooking"
         /\ req[r2].op = "addBooking"
         /\ SameSlot(req[r1].arg, req[r2].arg)
         /\ Overlap(r1, r2))
        => ~(req[r1].newId # 0 /\ req[r2].newId # 0)

\* Execution r is inside a section the script lock guards: the body of
\* addOrUpdateRecord or deleteRecord (whatever it calls from there), or the
\* critical section of ensureDatabaseInitialized.
InGuardedSection(r) ==
    \/ req[r].pc \in {"w_body", "w_write", "w_delete", "w_release"}
    \/ req[r].pc \in {"e_critical", "e_release"}
    \/ req[r].ret = "w_body" /\ req[r].pc \in {"e_wait", "e_populate", "e_setvalues"}

\* C10: at any moment at most one execution is inside a section guarded by
\* the script lock.
C10_MutualExclusion ==
    \A r1, r2 \in Reqs : r1 # r2 => ~(InGuardedSection(r1) /\ InGuardedSection(r2))


\* The status the read operations report for a stored row at time t.
Reported(row, t) == bookingStatus(sheetDataToObject(<<row>>)[1], t).status

\* The period windows as the specification lists them, in minutes of the day.
ClaimWindows ==
    <<<<8 * 60 + 40, 9 * 60 + 40>>, <<9 * 60 + 40, 10 * 60 + 40>>,
      <<10 * 60 + 40, 11 * 60 + 40>>, <<12 * 60 + 40, 13 * 60 + 40>>,
      <<13 * 60 + 40, 14 * 60 + 40>>, <<14 * 60 + 50, 15 * 60 + 50>>>>

\* The status C4 expects for a stored row at time t.
ClaimStatus(row, t) ==
    IF row.status \in {"Returned", "Not Used"} THEN row.status
    ELSE LET midnight == DayOf(row.date) * MinutesPerDay
             start == midnight + ClaimWindows[row.period][1]
             end == midnight + ClaimWindows[row.period][2]
         IN  IF t < start THEN "Booked"
             ELSE IF t <= end THEN "In Use"
             ELSE "Pending Return"

\* C4: every booking that getBookingsByDate or getBookingsWithStatus returns
\* carries the stored status when that is Returned or Not Used, and otherwise
\* Booked before its period's window, In Use within it (both ends included)
\* and Pending Return after it; getBookingsWithStatus returns every booking.
C4_ReportedStatus ==
    [][\A r \in Reqs :
        (/\ req[r].op \in {"getBookingsByDate", "getBookingsWithStatus"}
         /\ req[r].pc = "main"
         /\ req'[r].pc = "done")
        => /\ \A k \in DOMAIN req'[r].data :
                LET b == req'[r].data[k]
                IN  /\ RowOf(rows, b.id) # 0
                    /\ b.status = ClaimStatus(rows[RowOf(rows, b.id)], now)
           /\ req[r].op = "getBookingsWithStatus" =>
                \A i \in DOMAIN rows : \E k \in DOMAIN req'[r].data :
                    req'[r].data[k].id = rows[i].id
    ]_vars

\* C5: once a stored booking's status is Returned or Not Used, no step changes
\* it for as long as the booking exists.
C5_TerminalStatusSticky ==
    [][\A i \in DOMAIN rows : \A j \in DOMAIN rows' :
        (rows[i].status \in {"Returned", "Not Used"} /\ rows'[j].id = rows[i].id)
        => rows'[j].status = rows[i].status
    ]_vars

\* C6: a booking's status becomes Returned only by a confirmReturn for that
\* booking, and only when the read operations report it In Use or Pending
\* Return at that moment.
C6_ReturnedOnlyFromInUse ==
    [][\A i \in DOMAIN rows : \A j \in DOMAIN rows' :
        (rows'[j].id = rows[i].id /\ rows[i].status # "Returned"
            /\ rows'[j].status = "Returned")
        => /\ \E r \in Reqs : /\ Acts(r)
                              /\ req[r].op = "confirmReturn"
                              /\ updateId(req[r]) = rows[i].id
           /\ Reported(rows[i], now) \in {"In Use", "Pending Return"}
    ]_vars

\* C7: cancelBooking sets a booking to Not Used only when the read operations
\* report it Booked at that moment; for an unknown id or a booking reported
\* In Use, Pending Return, Returned or Not Used it ends with an error and
\* leaves the store unchanged.
C7_CancelOnlyBooked ==
    [][\A r \in Reqs :
        (req[r].op = "cancelBooking" /\ Acts(r)) =>
            LET i == RowOf(rows, updateId(req[r]))
                cancellable == i # 0 /\ Reported(rows[i], now) = "Booked"
            IN  /\ (req[r].pc = "main" /\ req[r].read = "values" /\ ~cancellable) =>
                        /\ req'[r].pc = "done"
                        /\ req'[r].result \notin {"ok", "none"}
                        /\ rows' = rows
                /\ rows' # rows => cancellable
    ]_vars

\* The order of the lifecycle states.
Rank(status) ==
    CASE status = "Booked" -> 1
      [] status = "In Use" -> 2
      [] status = "Pending Return" -> 3
      [] OTHER -> 4

\* C8: for a booking no request modifies, the reported status never moves
\* back along Booked -> In Use -> Pending Return as the clock advances.
C8_StatusMovesForward ==
    [][\A i \in DOMAIN rows :
        (rows' = rows /\ now' > now)
        => Rank(Reported(rows[i], now)) <= Rank(Reported(rows[i], now'))
    ]_vars

\* The clock has passed the end of the window of a booking still stored as
\* Booked, which is now reported Pending Return.
C8_Witness ==
    \E i \in DOMAIN rows :
        /\ rows[i].status = "Booked"
        /\ isDate(rows[i].date)
        /\ now > dateAt(rows[i].date, periodTimes[rows[i].period].end)
        /\ Reported(rows[i], now) = "Pending Return"

\* C9: no step of a read operation changes the rows of the Bookings sheet, and
\* the sheet never holds the derived statuses In Use and Pending Return.
C9_ReadsLeaveStore ==
    [][/\ \A r \in Reqs : (req[r].op \in ReadOps /\ Acts(r)) => rows' = rows
       /\ \A j \in DOMAIN rows' : rows'[j].status \notin {"In Use", "Pending Return"}
    ]_vars

\* A read has returned a derived status that the sheet does not hold.
C9_Witness ==
    \E r \in Reqs :
        /\ req[r].op \in ReadOps
        /\ req[r].pc = "done"
        /\ \E k \in DOMAIN req[r].data :
            /\ req[r].data[k].status \in {"In Use", "Pending Return"}
            /\ RowOf(rows, req[r].data[k].id) # 0
            /\ rows[RowOf(rows, req[r].data[k].id)].status = "Booked"

\* The sheets and the script properties.
store == <<props, headers, users, rows, master>>

\* C11: every finished request has a response {success: true, data} or
\* {success: false, message}; a request whose action is missing or is none of
\* the actions of actionMap is answered with success: false and changes
\* nothing in the store.
C11_EveryRequestAnswered ==
    [][\A r \in Reqs :
        (Acts(r) /\ req'[r].pc = "done") =>
            LET resp == response(req'[r])
            IN  /\ "success" \in DOMAIN resp
                /\ resp.success => "data" \in DOMAIN resp
                /\ ~resp.success => "message" \in DOMAIN resp
                /\ req[r].op \notin ActionNames => (~resp.success /\ store' = store)
    ]_vars

\* The stored users that authenticate's arguments match.
Matching(username, password) ==
    {i \in DOMAIN users : /\ users[i].username = username
                          /\ users[i].password = hashPassword(password)}

\* C12: authenticate(username, password) returns a user exactly when some
\* stored user has that username and a stored hash equal to the hash of the
\* password, that user being the one returned, and null otherwise.
C12_AuthenticateExactly ==
    [][\A r \in Reqs :
        (req[r].op = "authenticate" /\ req[r].pc = "main" /\ req'[r].pc = "done") =>
            LET match == Matching(req[r].arg.username, req[r].arg.password)
            IN  IF match = {} THEN req'[r].data = null
                ELSE /\ Len(req'[r].data) = 1
                     /\ \E i \in match : req'[r].data[1].id = users[i].id
    ]_vars

\* The requests that concern users.
UserOps == {"authenticate", "getUsers", "addUser", "updateUser"}

\* C13: no response to authenticate, getUsers, addUser or updateUser holds a
\* user's password field.
C13_NoPasswordInResponse ==
    \A r \in Reqs :
        (req[r].op \in UserOps /\ req[r].pc = "done" /\ response(req[r]).success) =>
            \A k \in DOMAIN response(req[r]).data :
                "password" \notin DOMAIN response(req[r]).data[k]

\* C14: every stored booking has a period in 1..6.
C14_PeriodInRange == \A i \in DOMAIN rows : rows[i].period \in 1..6

\* C20: the row addBooking appends has an id no stored booking has, status
\* Booked and the server's time as createdAt, whatever id, status or
\* createdAt the payload carries.
C20_AddBookingServerFields ==
    [][\A r \in Reqs :
        (req[r].op = "addBooking" /\ Acts(r) /\ rows' # rows) =>
            /\ Len(rows') = Len(rows) + 1
            /\ \A i \in DOMAIN rows : rows[i].id # rows'[Len(rows')].id
            /\ rows'[Len(rows')].status = "Booked"
            /\ rows'[Len(rows')].createdAt = toISOString([t |-> now])
    ]_vars

\* A booking posted with an id, a status and a createdAt of its own has been
\* stored, later than the instant it names or earlier.
C20_Witness ==
    \E r \in Reqs :
        /\ req[r].op = "addBooking"
        /\ req[r].pc = "done"
        /\ req[r].result = "ok"
        /\ "status" \in DOMAIN req[r].arg
        /\ req[r].arg.status # "Booked"
        /\ RowOf(rows, req[r].newId) # 0
        /\ Len(rows) > 1

\* C15: an updateBooking that moves a booking into a slot another stored
\* booking holds with a status other than Returned or Not Used ends with an
\* error and leaves the store unchanged.
C15_UpdateBookingConflict ==
    [][\A r \in Reqs :
        (/\ req[r].op = "updateBooking"
         /\ req[r].pc = "w_write"
         /\ req'[r].pc = "w_release"
         /\ \E j \in DOMAIN rows :
                /\ rows[j].id # req[r].arg.id
                /\ SameSlot(rows[j], req[r].arg.data)
                /\ NonTerminal(rows[j]))
        => (req'[r].result # "ok" /\ store' = store)
    ]_vars

\* C16: a request that has finished does not hold the script lock, whether
\* it succeeded, failed in the guarded section or returned early from the
\* initialization.
C16_LockReleased ==
    \A r \in Reqs : req[r].pc \in {"idle", "done"} => lock # r

\* A request has failed inside the guarded section of deleteRecord, on a
\* database another request set up, and the lock is free.
C16_Witness ==
    \E r \in Reqs :
        /\ req[r].pc = "done"
        /\ req[r].op = "deleteUser"
        /\ req[r].result = "Error: Record not found"
        /\ req[r].overlap # {}
        /\ lock = 0

\* C17: the structure setup is done once: a request that reaches the
\* critical section sets the database up when it is not set up, and otherwise
\* observes it as done and changes nothing; no other step touches the
\* properties or the header rows, and a database that is set up stays so,
\* each sheet with exactly one header row.
C17_SetupOnce ==
    [][/\ \A r \in Reqs :
            (req[r].pc = "e_critical" /\ Acts(r)) =>
                IF dbReady
                THEN /\ props' = props
                     /\ headers' = headers
                     /\ ~req'[r].populate
                ELSE /\ \A s \in SheetNames : headers[s] = 0
                     /\ req'[r].populate
       /\ (props' # props \/ headers' # headers) =>
            \E r \in Reqs : req[r].pc = "e_critical" /\ Acts(r) /\ ~dbReady
       /\ dbReady => (props' = props /\ headers' = headers)
       /\ (props'.DB_INITIALIZED /\ props'.SPREADSHEET_ID) =>
            \A s \in SheetNames : headers'[s] = 1
    ]_vars

\* One request has set the database up and is populating it while another,
\* which waited for the lock, has found the setup done.
C17_Witness ==
    \E r1, r2 \in Reqs :
        /\ r1 # r2
        /\ req[r1].pc \in {"e_populate", "e_setvalues"}
        /\ req[r2].pc = "e_release"
        /\ ~req[r2].populate
        /\ dbReady

\* C18: the default users are written only into a Users sheet without user
\* rows, so the write changes or removes no row an addUser request appended.
C18_PopulateOnlyEmpty ==
    [][\A r \in Reqs :
        (req[r].pc = "e_setvalues" /\ Acts(r)) =>
            /\ Len(users) = 0
            /\ \A i \in DOMAIN users : i \in DOMAIN users' /\ users'[i] = users[i]
    ]_vars

\* The steps of ensureDatabaseInitialized, which any handler runs through
\* getDB() when the database is not set up.
InSetup(r) == req[r].pc \in {"e_wait", "e_critical", "e_release", "e_populate", "e_setvalues"}

\* C19: a step of confirmReturn or cancelBooking that changes the store (the
\* one-time database setup aside) changes the row of its booking and nothing
\* else: confirmReturn sets status to Returned, returnedAt to the time the
\* handler read the clock and returnedBy to the admin name it was given,
\* cancelBooking sets status to Not Used; the other fields of the row and the
\* other rows stay as they were.
C19_ReturnCancelFrame ==
    [][\A r \in Reqs :
        (/\ req[r].op \in {"confirmReturn", "cancelBooking"}
         /\ Acts(r)
         /\ ~InSetup(r)
         /\ store' # store) =>
            LET i == RowOf(rows, updateId(req[r]))
            IN  /\ i # 0
                /\ <<props, headers, users>>' = <<props, headers, users>>
                /\ Len(rows') = Len(rows)
                /\ \A j \in DOMAIN rows : j # i => rows'[j] = rows[j]
                /\ IF req[r].op = "confirmReturn"
                   THEN /\ rows'[i] = [rows[i] EXCEPT
                                          !.status = "Returned",
                                          !.returnedAt = req[r].arg.data.returnedAt,
                                          !.returnedBy = req[r].arg.data.returnedBy]
                        /\ req[r].arg.data.returnedAt.iso <= now
                   ELSE rows'[i] = [rows[i] EXCEPT !.status = "Not Used"]
    ]_vars

\* The fields of a booking the form's payload does not carry.
ServerFields == {"id", "createdAt", "status", "returnedAt", "returnedBy"}

\* C21: updateBooking with the payload of the booking form (the one-time
\* database setup aside) leaves id, createdAt, status, returnedAt and
\* returnedBy of its booking and every other row as they were; for an id no
\* row has it ends with a not-found error and changes nothing.
C21_UpdateBookingFrame ==
    [][\A r \in Reqs :
        (req[r].op = "updateBooking" /\ Acts(r) /\ ~InSetup(r)) =>
            LET i == RowOf(rows, req[r].arg.id)
            IN  /\ <<props, headers, users>>' = <<props, headers, users>>
                /\ Len(rows') = Len(rows)
                /\ \A j \in DOMAIN rows : j # i => rows'[j] = rows[j]
                /\ i # 0 => \A f \in ServerFields : rows'[i][f] = rows[i][f]
                /\ (i = 0 /\ req[r].pc = "w_body" /\ req[r].read = "values") =>
                        /\ req'[r].pc = "w_release"
                        /\ req'[r].result = "Error: Record not found"
                /\ (i = 0 /\ req'[r].pc = "done") => ~response(req'[r]).success
    ]_vars

\* C22: deleteBooking (the one-time database setup aside) removes the row
\* whose id is the given id and leaves the other rows, in their order, as they
\* were; when no row has the id it ends with a not-found error and removes
\* nothing.
C22_DeleteExactlyOne ==
    [][\A r \in Reqs :
        (req[r].op = "deleteBooking" /\ Acts(r) /\ ~InSetup(r)) =>
            LET i == RowOf(rows, req[r].arg.id)
            IN  /\ <<props, headers, users>>' = <<props, headers, users>>
                /\ (req[r].pc = "w_body" /\ req'[r].pc = "w_release") =>
                        /\ i = 0
                        /\ req'[r].result = "Error: Record not found"
                /\ req[r].pc = "w_delete" =>
                        /\ i # 0
                        /\ Len(rows') = Len(rows) - 1
                        /\ \A j \in DOMAIN rows' :
                                rows'[j] = IF j < i THEN rows[j] ELSE rows[j + 1]
                        /\ RowOf(rows', req[r].arg.id) = 0
                        /\ req'[r].result = "ok"
                /\ req[r].pc # "w_delete" => rows' = rows
                /\ (req'[r].pc = "done" /\ req'[r].result # "ok") =>
                        ~response(req'[r]).success
    ]_vars

\* The passwords of the model's requests and default users.
KnownPasswords ==
    Passwords \cup {"pw2"} \cup {defaultUsers[i].password : i \in DOMAIN defaultUsers}

\* C23: updateUser stores the hash of the password it is given when that is
\* not empty and leaves the stored hash as it was when the payload has no
\* password or an empty one; every stored password is the hash of a password,
\* never the password itself.
C23_UpdateUserPassword ==
    [][/\ \A r \in Reqs :
            (/\ req[r].op = "updateUser"
             /\ req[r].pc = "w_write"
             /\ req'[r].pc = "w_release"
             /\ RowOf(users, userId(req[r])) # 0) =>
                LET i == RowOf(users, userId(req[r]))
                    data == req[r].arg.data
                IN  IF "password" \in DOMAIN data /\ data.password # ""
                    THEN users'[i].password = hashPassword(data.password)
                    ELSE users'[i].password = users[i].password
       /\ \A j \in DOMAIN users' :
            /\ users'[j].password \notin KnownPasswords \cup {""}
            /\ users'[j].password \in {hashPassword(p) : p \in KnownPasswords}
    ]_vars

\* C24: getBookingsByDate(date) returns the stored bookings whose date is the
\* requested day, each once and no other, every one with the fields it is
\* stored with and the status the clock gives it.
C24_ByDateExactly ==
    [][\A r \in Reqs :
        (req[r].op = "getBookingsByDate" /\ req[r].pc = "main" /\ req'[r].pc = "done") =>
            LET wanted == {i \in DOMAIN rows : DayOf(rows[i].date) = DayOf(req[r].arg.date)}
                got == req'[r].data
            IN  /\ response(req'[r]).success
                /\ Len(got) = Cardinality(wanted)
                /\ \A i \in wanted : \E k \in DOMAIN got : got[k].id = rows[i].id
                /\ \A k \in DOMAIN got :
                    \E i \in wanted :
                        /\ got[k] = [sheetDataToObject(rows)[i] EXCEPT
                                        !.status = ClaimStatus(rows[i], now)]
    ]_vars

====
